---- MODULE Spec2Model ----
(***************************************************************************)
(* The node registry and selection engine (LoadBalancer) of the           *)
(* OpenRouter blueprint, with the backend clients it selects over.         *)
(*                                                                         *)
(* Numbers: cpu_utilization and memory_utilization are f32 values in       *)
(* [0,1]; they are kept in tenths (0.9 is 9).  A capability score is kept  *)
(* multiplied by 10000, which makes every term of the source's formula an  *)
(* integer.  NodeMetrics fields that no registry operation reads           *)
(* (gpu_utilization, requests_per_minute, last_updated) are left out.      *)
(***************************************************************************)
EXTENDS Integers, Sequences, FiniteSets, TLC

VARIABLES
    strategy,           \* LoadBalancer.config.strategy
    nodes,              \* LoadBalancer.nodes: HashMap<String, LoadBalancerNode>
    order,              \* iteration order of the HashMap (its keys, each once)
    round_robin_index,  \* LoadBalancer.round_robin_index
    clientMetrics,      \* the NodeMetrics each backend client holds itself
    backendUp,          \* whether the vLLM server reports the client's model
    call,               \* the last registry operation: its name, and whether
                        \* it found what it was called for
    ret,                \* what that operation returned
    rrTrace,            \* the nodes returned by the latest run of RoundRobin
                        \* selections for one model over an unchanged pool
    deactivated,        \* the ids set inactive and not set active or added since
    reactivated,        \* the id set active again, while the pool is as it
                        \* was left by that call
    history,            \* the selections that returned a node since the pool
                        \* last changed: the model asked for and the node
    consumed,           \* the chunks a stream collector has taken from its
                        \* stream, in stream order
    collector,          \* a call of collect_*_stream: which of the two, where
                        \* it stands, its choices accumulator and its result
    inflight,           \* the calls of LocalLlmClient's request methods that
                        \* are under way, each with the await it stands at
    reply,              \* the last request a backend client answered, and
                        \* its answer
    tasks,              \* the concurrent calls of registry operations under
                        \* way, each with the statement it stands at, the
                        \* lock guards it holds and its local values
    config              \* the configuration file's values, the process
                        \* environment, and what BlueprintConfig::load
                        \* returned for them

vars == <<strategy, nodes, order, round_robin_index, clientMetrics, backendUp,
          call, ret, rrTrace, deactivated, reactivated, history, consumed,
          collector, inflight, reply, tasks, config>>

\* The variables that only observe the program.
observers == <<rrTrace, deactivated, reactivated, history>>

\* The variables of the parts of the program outside the registry.
outside == <<consumed, collector, inflight, reply, tasks, config>>

\* What a step of the registry alone leaves as it is.
frame == <<observers, outside>>

----------------------------------------------------------------------------
(* Inputs *)

MaxTrace == 4

NodeIds == {"A", "B", "C"}

ModelIds == {"x", "y", "z"}

Clients == {"local", "mock", "vllm", "ollama"}

Strategies == {"RoundRobin", "LeastLoaded", "CapabilityBased", "LatencyBased"}

\* The (id, client) pairs the callers of add_node register.
AddInputs ==
    { <<"A", "mock">>, <<"B", "local">>, <<"B", "vllm">>, <<"C", "mock">> }

Metrics(ar, lat, cpu, mem) ==
    [ active_requests |-> ar, average_response_time_ms |-> lat,
      cpu_utilization |-> cpu, memory_utilization |-> mem ]

\* LocalLlmClient::new and VllmLlmClient::new start from all-zero metrics.
ZeroMetrics == Metrics(0, 0, 0, 0)

\* A lightly and a heavily loaded snapshot, alike but for cpu_utilization
\* (0.1 / 0.9) and active_requests (1 / 10).
LightMetrics == Metrics(1, 300, 1, 3)

HeavyMetrics == Metrics(10, 300, 9, 3)

\* The snapshots callers push with update_node_metrics.
MetricsSamples == { LightMetrics, HeavyMetrics }

\* f32::NAN as a utilization: a value that partial_cmp orders against
\* nothing, itself included.  It stands outside the tenths 0..10.
NaN == 0 - 1

\* A snapshot whose cpu_utilization is not a number; update_node_metrics
\* stores it as it stores any other.
NanMetrics == Metrics(1, 300, NaN, 3)

\* The snapshots of callers that do not check what they push.
UncheckedSamples == { LightMetrics, NanMetrics }

\* The metrics MockLlmClient::new builds the client with (cpu 0.5, memory
\* 0.3, 200 ms, 5 active requests); a plain field, never changed.
MockMetrics == Metrics(5, 200, 5, 3)

ModelInfo(id, ctx) == [ id |-> id, max_context_length |-> ctx ]

\* LocalLlmConfig.models of the local client.
LocalModels == << ModelInfo("x", 4096), ModelInfo("y", 4096) >>

\* MockLlmClient.models, a public field its users set: here one model, with
\* a longer context than the other clients report.
MockModels == << ModelInfo("x", 8192) >>

\* VllmLlmClient.model, the one model the client is configured with.
VllmModel == "y"

\* OllamaLlmClient.model, likewise.
OllamaModel == "x"

\* What the GET of a client's model listing comes to: whether send() gave a
\* response, whether its status is a success, whether its body parses, and
\* the model ids the parsed body reports.
Probe(sent, success, parsed, ids) ==
    [ sent |-> sent, success |-> success, parsed |-> parsed, ids |-> ids ]

\* The probes of a server that does not answer, answers with an error
\* status, answers with a body that does not parse, and answers with a
\* list of models.
Probes ==
    { Probe(FALSE, FALSE, FALSE, {}), Probe(TRUE, FALSE, FALSE, {}),
      Probe(TRUE, FALSE, TRUE, {"x", "y"}), Probe(TRUE, TRUE, FALSE, {}) }
    \cup { Probe(TRUE, TRUE, TRUE, ids) : ids \in SUBSET {"x", "y"} }

\* The number of calls of registry operations that run concurrently.
MaxTasks == 2

TaskIds == 1..MaxTasks

\* A task that runs no call.  A running call has its operation, the index
\* of the statement it stands at, its arguments, the lock guards it holds,
\* its local list of nodes, its local value (in the end the value it
\* returns) and whether it has called a client that probes its server.
Idle ==
    [ op |-> "idle", pc |-> 0, id |-> "", arg |-> "", holds |-> {},
      nodes |-> << >>, val |-> "", probed |-> FALSE ]

\* No configuration file read and no environment variable of the program set.
NoConfig == [ file |-> << >>, env |-> << >>, loaded |-> {} ]

----------------------------------------------------------------------------
(* Backend clients *)

\* valid_model of get_supported_models in the vLLM and Ollama clients.
ValidModel(model, probe) ==
    IF probe.sent
      THEN IF probe.success
             THEN IF probe.parsed THEN model \in probe.ids ELSE FALSE
             ELSE FALSE
      ELSE FALSE

\* get_supported_models listing the configured model whatever the probe.
HttpSupportedModelsAlways(model, probe) == << ModelInfo(model, 4096) >>

\* get_supported_models of the vLLM and Ollama clients, configured with
\* model, when the probe it makes comes to probe.
HttpSupportedModels(model, probe) ==
    IF ~ValidModel(model, probe) THEN << >>
    ELSE << ModelInfo(model, 4096) >>

\* The probe of a registered HTTP client's server: it reports the client's
\* model, or it does not answer.
ServerProbe(model) ==
    IF backendUp THEN Probe(TRUE, TRUE, TRUE, {model})
    ELSE Probe(FALSE, FALSE, FALSE, {})

\* LlmClient::get_supported_models.  The vLLM and Ollama clients probe
\* their server and list the configured model only if it reports it.
GetSupportedModels(c) ==
    CASE c = "local"  -> LocalModels
      [] c = "mock"   -> MockModels
      [] c = "vllm"   -> HttpSupportedModels(VllmModel, ServerProbe(VllmModel))
      [] c = "ollama" ->
           HttpSupportedModels(OllamaModel, ServerProbe(OllamaModel))

\* LlmClient::get_metrics: a clone of the client's current metrics.
GetMetrics(c) == clientMetrics[c]

----------------------------------------------------------------------------
(* Sequences *)

Range(s) == { s[i] : i \in DOMAIN s }

\* The orders in which a HashMap holding the keys S may iterate.
Perms(S) ==
    { p \in [1..Cardinality(S) -> S] : \A i, j \in 1..Cardinality(S) :
                                          p[i] = p[j] => i = j }

\* supported_models.iter().find(|m| m.id == model): the index of the first
\* ModelInfo of that id at or after i, or 0.
RECURSIVE FindModel(_, _, _)
FindModel(models, model, i) ==
    IF i > Len(models) THEN 0
    ELSE IF models[i].id = model THEN i
    ELSE FindModel(models, model, i + 1)

----------------------------------------------------------------------------
(* Selection *)

\* The stored nodes, each with the metrics its client holds at present in
\* place of the stored snapshot.
ValuesLive ==
    [ i \in 1..Len(order) |->
        [ nodes[order[i]] EXCEPT
            !.metrics = GetMetrics(nodes[order[i]].client) ] ]

\* HashMap::values(): the stored nodes in the map's iteration order.
Values == [ i \in 1..Len(order) |-> nodes[order[i]] ]

\* get_active_nodes without its filter on the active flag.
GetActiveNodesUnfiltered == Values

\* LoadBalancer::get_active_nodes
GetActiveNodes == SelectSeq(Values, LAMBDA n : n.active)

\* n.client.get_supported_models().iter().any(|m| m.id == model)
SupportsModel(n, model) ==
    \E i \in DOMAIN GetSupportedModels(n.client) :
        GetSupportedModels(n.client)[i].id = model

\* select_node_for_model: the active nodes whose client lists the model.
SupportingNodes(model) ==
    SelectSeq(GetActiveNodes, LAMBDA n : SupportsModel(n, model))

\* select_round_robin with the cursor left where it was.
SelectRoundRobinStuck(ns, index) ==
    [ node |-> ns[(index % Len(ns)) + 1], index |-> index ]

\* LoadBalancer::select_round_robin: the chosen node and the cursor stored.
SelectRoundRobin(ns, index) ==
    LET selected_index == index % Len(ns)
    IN  [ node  |-> ns[selected_index + 1],
          index |-> (index + 1) % Len(ns) ]

\* A fold for the minimum that keeps the later of two nodes with equal keys.
RECURSIVE MinByKeyFromLast(_, _, _, _)
MinByKeyFromLast(ns, key, best, i) ==
    IF i > Len(ns) THEN best
    ELSE MinByKeyFromLast(ns, key,
                          IF ns[i].metrics[key] <= best.metrics[key]
                            THEN ns[i]
                            ELSE best,
                          i + 1)

\* Iterator::min_by_key on the metrics field `key`: a left fold that keeps
\* the earlier of two nodes with equal keys.
RECURSIVE MinByKeyFrom(_, _, _, _)
MinByKeyFrom(ns, key, best, i) ==
    IF i > Len(ns) THEN best
    ELSE MinByKeyFrom(ns, key,
                      IF ns[i].metrics[key] < best.metrics[key] THEN ns[i]
                      ELSE best,
                      i + 1)

MinByKey(ns, key) == MinByKeyFrom(ns, key, ns[1], 2)

\* select_least_loaded keyed on the response time instead of the load.
SelectLeastLoadedByLatency(ns) == MinByKey(ns, "average_response_time_ms")

\* LoadBalancer::select_least_loaded
SelectLeastLoaded(ns) == MinByKey(ns, "active_requests")

\* select_latency_based with max_by_key in place of min_by_key: a left fold
\* that keeps the later of two nodes with equal keys.
RECURSIVE MaxByKeyFrom(_, _, _, _)
MaxByKeyFrom(ns, key, best, i) ==
    IF i > Len(ns) THEN best
    ELSE MaxByKeyFrom(ns, key,
                      IF ns[i].metrics[key] >= best.metrics[key] THEN ns[i]
                      ELSE best,
                      i + 1)

SelectLatencyBasedMax(ns) ==
    MaxByKeyFrom(ns, "average_response_time_ms", ns[1], 2)

\* LoadBalancer::select_latency_based
SelectLatencyBased(ns) == MinByKey(ns, "average_response_time_ms")

\* calculate_capability_score without the context-length term.
CalculateCapabilityScoreNoContext(node, model_info) ==
    10000 - node.metrics.cpu_utilization * 500
          - node.metrics.memory_utilization * 500
          - node.metrics.active_requests * 1000

\* LoadBalancer::calculate_capability_score, times 10000.
CalculateCapabilityScore(node, model_info) ==
    10000 + model_info.max_context_length
          - node.metrics.cpu_utilization * 500
          - node.metrics.memory_utilization * 500
          - node.metrics.active_requests * 1000

\* The filter_map of select_capability_based: each node that still lists the
\* model, paired with its score for the first ModelInfo of that id.
ScoredNodes(ns, model) ==
    LET Listed(n) == FindModel(GetSupportedModels(n.client), model, 1) # 0
        Info(n)   == GetSupportedModels(n.client)
                        [FindModel(GetSupportedModels(n.client), model, 1)]
        kept      == SelectSeq(ns, Listed)
    IN  [ i \in 1..Len(kept) |->
            [ node |-> kept[i],
              score |-> CalculateCapabilityScore(kept[i], Info(kept[i])) ] ]

\* slice::sort_by with |a, b| b.score.partial_cmp(a.score): a stable sort,
\* highest score first.
RECURSIVE SortByScoreDesc(_)
SortByScoreDesc(s) ==
    IF Len(s) <= 1 THEN s
    ELSE LET front  == SortByScoreDesc(SubSeq(s, 1, Len(s) - 1))
             e      == s[Len(s)]
             before == Cardinality({ i \in DOMAIN front :
                                       front[i].score >= e.score })
         IN  SubSeq(front, 1, before) \o << e >>
                \o SubSeq(front, before + 1, Len(front))

\* The f32 score of calculate_capability_score is NaN: a NaN utilization
\* stays NaN through `* 0.5` and `score -=`.
ScoreIsNaN(node) ==
    \/ node.metrics.cpu_utilization = NaN
    \/ node.metrics.memory_utilization = NaN

\* score2.partial_cmp(score1).unwrap() in the sort_by of
\* select_capability_based: the sort compares every element of a slice of
\* two or more with another, partial_cmp of a NaN is None, and unwrap
\* panics on it.  A slice of fewer than two is returned uncompared.
SortPanics(ns, model) ==
    /\ Len(ScoredNodes(ns, model)) >= 2
    /\ \E i \in DOMAIN ScoredNodes(ns, model) :
          ScoreIsNaN(ScoredNodes(ns, model)[i].node)

\* LoadBalancer::select_capability_based: the first of the sorted nodes, if any.
SelectCapabilityBased(ns, model) ==
    LET scored_nodes == SortByScoreDesc(ScoredNodes(ns, model))
    IN  IF scored_nodes = << >> THEN {} ELSE { scored_nodes[1].node }

\* The match on config.strategy in select_node_for_model: the node returned
\* (a set with at most one element) and the cursor it leaves.
SelectByStrategy(ns, model) ==
    CASE strategy = "RoundRobin" ->
            [ node  |-> { SelectRoundRobin(ns, round_robin_index).node },
              index |-> SelectRoundRobin(ns, round_robin_index).index ]
      [] strategy = "LeastLoaded" ->
            [ node |-> { SelectLeastLoaded(ns) }, index |-> round_robin_index ]
      [] strategy = "CapabilityBased" ->
            [ node  |-> SelectCapabilityBased(ns, model),
              index |-> round_robin_index ]
      [] strategy = "LatencyBased" ->
            [ node |-> { SelectLatencyBased(ns) }, index |-> round_robin_index ]

\* select_node_for_model taking the cursor forward before it looks for
\* nodes, so that a call that finds none has moved it.
SelectNodeCounting(model) ==
    IF Len(SupportingNodes(model)) = 0
      THEN [ node |-> {}, index |-> (round_robin_index + 1) % 2 ]
      ELSE SelectByStrategy(SupportingNodes(model), model)

\* LoadBalancer::select_node_for_model: the node returned (none when no node
\* is active or none lists the model) and the cursor the call leaves.
SelectNode(model) ==
    LET active_nodes     == GetActiveNodes
        supporting_nodes == SupportingNodes(model)
    IN  IF Len(active_nodes) = 0
          THEN [ node |-> {}, index |-> round_robin_index ]
        ELSE IF Len(supporting_nodes) = 0
          THEN [ node |-> {}, index |-> round_robin_index ]
        ELSE SelectByStrategy(supporting_nodes, model)

\* An Option<LoadBalancerNode> as the value an operation returns: the id of
\* the node, whose other fields are those stored under that id.
RetOf(opt) == IF opt = {} THEN "none" ELSE (CHOOSE n \in opt : TRUE).id

\* A bool as the value an operation returns.
RetBool(b) == IF b THEN "true" ELSE "false"

----------------------------------------------------------------------------
(* The registry's operations *)

Called(op, hit) == [ op |-> op, hit |-> hit ]

\* LoadBalancer::new, and the clients as constructed.
Init ==
    /\ strategy \in Strategies
    /\ nodes = << >>
    /\ order = << >>
    /\ round_robin_index = 0
    /\ clientMetrics = [ c \in Clients |->
                           IF c = "mock" THEN MockMetrics ELSE ZeroMetrics ]
    /\ backendUp \in BOOLEAN
    /\ call = Called("new", FALSE)
    /\ ret = "unit"
    /\ rrTrace = [ model |-> "", picks |-> << >> ]
    /\ history = << >>
    /\ deactivated = {}
    /\ reactivated = "none"
    /\ consumed = << >>
    /\ collector = [ kind |-> "none", pc |-> "idle", choices |-> << >>,
                     result |-> [ tag |-> "none", error |-> "",
                                  choices |-> << >> ] ]
    /\ inflight = {}
    /\ reply = [ client |-> "none", op |-> "none", model |-> "",
                 listed |-> FALSE, result |-> "none", models |-> << >> ]
    /\ tasks = [ t \in TaskIds |-> Idle ]
    /\ config = NoConfig

\* add_node keeping the entry an id already has.
AddNodeIfAbsent(id, client) ==
    LET metrics == GetMetrics(client)
        node    == [ id |-> id, client |-> client, metrics |-> metrics,
                     active |-> TRUE ]
    IN  /\ nodes' = [ k \in DOMAIN nodes \cup {id} |->
                        IF k \in DOMAIN nodes THEN nodes[k] ELSE node ]
        /\ IF id \in DOMAIN nodes
             THEN order' = order
             ELSE order' \in Perms(DOMAIN nodes \cup {id})
        /\ call' = Called("add_node", id \in DOMAIN nodes)
        /\ ret' = "unit"
        /\ UNCHANGED <<strategy, round_robin_index, clientMetrics, backendUp>>

\* LoadBalancer::add_node
AddNode(id, client) ==
    LET metrics == GetMetrics(client)
        node    == [ id |-> id, client |-> client, metrics |-> metrics,
                     active |-> TRUE ]
    IN  /\ nodes' = [ k \in DOMAIN nodes \cup {id} |->
                        IF k = id THEN node ELSE nodes[k] ]
        /\ IF id \in DOMAIN nodes
             THEN order' = order
             ELSE order' \in Perms(DOMAIN nodes \cup {id})
        /\ call' = Called("add_node", id \in DOMAIN nodes)
        /\ ret' = "unit"
        /\ UNCHANGED <<strategy, round_robin_index, clientMetrics, backendUp>>

\* remove_node reporting a removal whether or not the id was stored.
RemoveNodeAlwaysTrue(id) ==
    LET removed == id \in DOMAIN nodes
    IN  /\ nodes' = [ k \in DOMAIN nodes \ {id} |-> nodes[k] ]
        /\ IF removed
             THEN order' \in Perms(DOMAIN nodes \ {id})
             ELSE order' = order
        /\ call' = Called("remove_node", removed)
        /\ ret' = RetBool(TRUE)
        /\ UNCHANGED <<strategy, round_robin_index, clientMetrics, backendUp>>

\* LoadBalancer::remove_node
RemoveNode(id) ==
    LET removed == id \in DOMAIN nodes
    IN  /\ nodes' = [ k \in DOMAIN nodes \ {id} |-> nodes[k] ]
        /\ IF removed
             THEN order' \in Perms(DOMAIN nodes \ {id})
             ELSE order' = order
        /\ call' = Called("remove_node", removed)
        /\ ret' = RetBool(removed)
        /\ UNCHANGED <<strategy, round_robin_index, clientMetrics, backendUp>>

\* update_node_metrics that also marks the node active, as add_node does.
UpdateNodeMetricsRevives(id, metrics) ==
    /\ IF id \in DOMAIN nodes
         THEN /\ nodes' = [ nodes EXCEPT ![id].metrics = metrics,
                                         ![id].active = TRUE ]
              /\ ret' = RetBool(TRUE)
         ELSE /\ nodes' = nodes
              /\ ret' = RetBool(FALSE)
    /\ call' = Called("update_node_metrics", id \in DOMAIN nodes)
    /\ UNCHANGED <<strategy, order, round_robin_index, clientMetrics,
                   backendUp>>

\* LoadBalancer::update_node_metrics
UpdateNodeMetrics(id, metrics) ==
    /\ IF id \in DOMAIN nodes
         THEN /\ nodes' = [ nodes EXCEPT ![id].metrics = metrics ]
              /\ ret' = RetBool(TRUE)
         ELSE /\ nodes' = nodes
              /\ ret' = RetBool(FALSE)
    /\ call' = Called("update_node_metrics", id \in DOMAIN nodes)
    /\ UNCHANGED <<strategy, order, round_robin_index, clientMetrics,
                   backendUp>>

\* set_node_active storing true whatever flag it is given.
SetNodeActiveAlways(id, active) ==
    /\ IF id \in DOMAIN nodes
         THEN /\ nodes' = [ nodes EXCEPT ![id].active = TRUE ]
              /\ ret' = RetBool(TRUE)
         ELSE /\ nodes' = nodes
              /\ ret' = RetBool(FALSE)
    /\ call' = Called("set_node_active", id \in DOMAIN nodes)
    /\ UNCHANGED <<strategy, order, round_robin_index, clientMetrics,
                   backendUp>>

\* set_node_active that also rewinds the round-robin cursor.
SetNodeActiveRewinds(id, active) ==
    /\ IF id \in DOMAIN nodes
         THEN /\ nodes' = [ nodes EXCEPT ![id].active = active ]
              /\ ret' = RetBool(TRUE)
         ELSE /\ nodes' = nodes
              /\ ret' = RetBool(FALSE)
    /\ round_robin_index' = 0
    /\ call' = Called("set_node_active", id \in DOMAIN nodes)
    /\ UNCHANGED <<strategy, order, clientMetrics, backendUp>>

\* LoadBalancer::set_node_active
SetNodeActive(id, active) ==
    /\ IF id \in DOMAIN nodes
         THEN /\ nodes' = [ nodes EXCEPT ![id].active = active ]
              /\ ret' = RetBool(TRUE)
         ELSE /\ nodes' = nodes
              /\ ret' = RetBool(FALSE)
    /\ call' = Called("set_node_active", id \in DOMAIN nodes)
    /\ UNCHANGED <<strategy, order, round_robin_index, clientMetrics,
                   backendUp>>

\* select_node_for_model unwinds in the sort of select_capability_based.
SelectPanics(model) ==
    /\ strategy = "CapabilityBased"
    /\ Len(SupportingNodes(model)) > 0
    /\ SortPanics(SupportingNodes(model), model)

\* LoadBalancer::select_node_for_model, called by a user of the registry.
\* The call returns a node or none, or panics in the sort, where it holds
\* no lock and has written nothing.
SelectNodeForModel(model) ==
    IF SelectPanics(model)
      THEN /\ ret' = "panic"
           /\ call' = Called("select_node_for_model", FALSE)
           /\ UNCHANGED <<strategy, nodes, order, round_robin_index,
                          clientMetrics, backendUp>>
      ELSE /\ ret' = RetOf(SelectNode(model).node)
           /\ round_robin_index' = SelectNode(model).index
           /\ call' = Called("select_node_for_model",
                             SelectNode(model).node # {})
           /\ UNCHANGED <<strategy, nodes, order, clientMetrics, backendUp>>

\* LocalLlmClient::update_metrics: the local client's own utilization.
LocalUpdateMetrics(cpu, memory) ==
    /\ clientMetrics' = [ clientMetrics EXCEPT
                            !["local"].cpu_utilization = cpu,
                            !["local"].memory_utilization = memory ]
    /\ UNCHANGED <<strategy, nodes, order, round_robin_index, backendUp,
                   call, ret>>

\* The vLLM server starts or stops reporting the client's model.
BackendChange ==
    /\ backendUp' = ~backendUp
    /\ UNCHANGED <<strategy, nodes, order, round_robin_index, clientMetrics,
                   call, ret>>

Next ==
    \/ \E in \in AddInputs : AddNode(in[1], in[2]) /\ UNCHANGED frame
    \/ \E id \in NodeIds : RemoveNode(id) /\ UNCHANGED frame
    \/ \E id \in NodeIds, m \in MetricsSamples :
          UpdateNodeMetrics(id, m) /\ UNCHANGED frame
    \/ \E id \in NodeIds, b \in BOOLEAN :
          SetNodeActive(id, b) /\ UNCHANGED frame
    \/ \E model \in ModelIds :
          SelectNodeForModel(model) /\ UNCHANGED frame
    \/ LocalUpdateMetrics(9, 3) /\ UNCHANGED frame
    \/ BackendChange /\ UNCHANGED frame

Spec == Init /\ [][Next]_vars

----------------------------------------------------------------------------
(* RoundRobin selections, observed *)

NoTrace == [ model |-> "", picks |-> << >> ]

\* The picks of a run of RoundRobin selections, the latest MaxTrace of them.
Record(picks, id) ==
    IF Len(picks) < MaxTrace THEN Append(picks, id)
    ELSE Append(Tail(picks), id)

\* What a selection adds to the run of picks: a pick for the same model
\* extends the run, a pick for another model starts a new one, and a call
\* that returns no node leaves the run as it is.
Observe(model) ==
    IF ret' = "none" THEN rrTrace
    ELSE [ model |-> model,
           picks |-> Record(IF rrTrace.model = model THEN rrTrace.picks
                            ELSE << >>, ret') ]

\* The pool a run of selections draws from: membership, clients, active
\* flags, iteration order and the model lists of the clients.
Pool == << [ id \in DOMAIN nodes |-> << nodes[id].client, nodes[id].active >> ],
           order, backendUp >>

\* The observers across a step that is no selection: a changed pool ends
\* the run of picks.
Watch(off, on, again) ==
    /\ UNCHANGED <<outside, history>>
    /\ deactivated' = (deactivated \ on) \cup off
    /\ IF Pool' = Pool
         THEN UNCHANGED <<rrTrace, reactivated>>
         ELSE rrTrace' = NoTrace /\ reactivated' = again

InitRR == Init /\ strategy = "RoundRobin"

NextRR ==
    \/ \E in \in AddInputs :
          AddNode(in[1], in[2]) /\ Watch({}, {in[1]}, "none")
    \/ \E id \in NodeIds : RemoveNode(id) /\ Watch({}, {}, "none")
    \/ \E id \in NodeIds :
          UpdateNodeMetrics(id, LightMetrics) /\ Watch({}, {}, "none")
    \/ \E id \in NodeIds :
          SetNodeActive(id, FALSE)
            /\ Watch(IF id \in DOMAIN nodes THEN {id} ELSE {}, {}, "none")
    \/ \E id \in NodeIds : SetNodeActive(id, TRUE) /\ Watch({}, {id}, id)
    \/ \E model \in ModelIds :
          /\ SelectNodeForModel(model)
          /\ rrTrace' = Observe(model)
          /\ UNCHANGED <<deactivated, reactivated, history, outside>>
    \/ BackendChange /\ Watch({}, {}, "none")

SpecRR == InitRR /\ [][NextRR]_vars

----------------------------------------------------------------------------
(* Claims *)

\* The ids of the nodes that qualify for a model: active, and the client
\* lists a model of that id.
Qualifying(model) ==
    { id \in DOMAIN nodes :
        /\ nodes[id].active
        /\ \E i \in DOMAIN GetSupportedModels(nodes[id].client) :
              GetSupportedModels(nodes[id].client)[i].id = model }

\* C1: under RoundRobin, in a run of consecutive selections for one model
\* over an unchanged pool of n qualifying nodes, any n consecutive picks are
\* pairwise different and are exactly the qualifying nodes, and the pick
\* made n calls after a pick is the same node again.
C1_RoundRobinCycle ==
    LET p   == rrTrace.picks
        ids == Qualifying(rrTrace.model)
        n   == Cardinality(ids)
    IN  p # << >> =>
          /\ n > 0
          /\ \A i \in DOMAIN p : p[i] \in ids
          /\ \A i, j \in DOMAIN p :
                i < j => /\ (j - i < n => p[i] # p[j])
                         /\ (j - i = n => p[i] = p[j])
          /\ \A i \in DOMAIN p :
                i + n - 1 <= Len(p) => { p[k] : k \in i..(i + n - 1) } = ids

\* Three nodes qualify and four consecutive picks were made: a full cycle
\* and the first pick of the next one.
C1_Witness ==
    /\ strategy = "RoundRobin"
    /\ Cardinality(Qualifying(rrTrace.model)) = 3
    /\ Len(rrTrace.picks) = 4
    /\ rrTrace.picks[4] = rrTrace.picks[1]

\* C2: under LeastLoaded a selection for a model with a qualifying node
\* returns a qualifying node whose cached active_requests is at most that of
\* every qualifying node, whatever update_node_metrics stored before.
C2_LeastLoadedMinimal ==
    [][ \A model \in ModelIds :
          ( /\ strategy = "LeastLoaded"
            /\ Qualifying(model) # {}
            /\ SelectNodeForModel(model) )
          => /\ ret' \in Qualifying(model)
             /\ \A q \in Qualifying(model) :
                   nodes[ret'].metrics.active_requests
                     <= nodes[q].metrics.active_requests ]_vars

\* A selection returned C, lightly loaded, while A qualifies too and carries
\* the heavy load that only update_node_metrics can have stored.
C2_Witness ==
    /\ strategy = "LeastLoaded"
    /\ call = Called("select_node_for_model", TRUE)
    /\ ret = "C"
    /\ {"A", "C"} \subseteq Qualifying("x")
    /\ nodes["A"].metrics = HeavyMetrics
    /\ nodes["C"].metrics.active_requests < nodes["A"].metrics.active_requests

\* C3: under LatencyBased a selection for a model with a qualifying node
\* returns a qualifying node whose cached average_response_time_ms is at most
\* that of every qualifying node.
C3_LatencyMinimal ==
    [][ \A model \in ModelIds :
          ( /\ strategy = "LatencyBased"
            /\ Qualifying(model) # {}
            /\ SelectNodeForModel(model) )
          => /\ ret' \in Qualifying(model)
             /\ \A q \in Qualifying(model) :
                   nodes[ret'].metrics.average_response_time_ms
                     <= nodes[q].metrics.average_response_time_ms ]_vars

\* A selection returned B, the fastest node, while a slower node qualifies.
C3_Witness ==
    /\ strategy = "LatencyBased"
    /\ call = Called("select_node_for_model", TRUE)
    /\ ret = "B"
    /\ {"A", "B"} \subseteq Qualifying("x")
    /\ nodes["B"].metrics.average_response_time_ms
         < nodes["A"].metrics.average_response_time_ms

\* The score of the claim, times 10000, of node id for a model: from the
\* ModelInfo of that id in the client's list and the cached metrics.
ClaimScore(id, model) ==
    LET models == GetSupportedModels(nodes[id].client)
        info   == models[CHOOSE i \in DOMAIN models : models[i].id = model]
    IN  10000 + info.max_context_length
              - 500 * nodes[id].metrics.cpu_utilization
              - 500 * nodes[id].metrics.memory_utilization
              - 1000 * nodes[id].metrics.active_requests

\* C4: under CapabilityBased a selection for a model with a qualifying node
\* returns a qualifying node of maximal score; of two qualifying nodes with
\* the same client, one with cpu 0.1 and 1 active request and one with cpu
\* 0.9 and 10 active requests, the second is not the one returned.
C4_CapabilityMaximal ==
    [][ \A model \in ModelIds :
          ( /\ strategy = "CapabilityBased"
            /\ Qualifying(model) # {}
            /\ SelectNodeForModel(model) )
          => /\ ret' \in Qualifying(model)
             /\ \A q \in Qualifying(model) :
                   ClaimScore(ret', model) >= ClaimScore(q, model)
             /\ \A a, b \in Qualifying(model) :
                   ( /\ nodes[a].client = nodes[b].client
                     /\ nodes[a].metrics = LightMetrics
                     /\ nodes[b].metrics = HeavyMetrics )
                   => ret' # b ]_vars

\* A and C hold the same client; A is light, C is heavy, and the selection
\* returned A.
C4_Witness ==
    /\ strategy = "CapabilityBased"
    /\ call = Called("select_node_for_model", TRUE)
    /\ ret = "A"
    /\ {"A", "C"} \subseteq Qualifying("x")
    /\ nodes["A"].client = nodes["C"].client
    /\ nodes["A"].metrics = LightMetrics
    /\ nodes["C"].metrics = HeavyMetrics

\* C5: under every strategy a selection returns a node exactly when some
\* node is active and lists the model, the node returned is one of those,
\* and it returns no node otherwise.
C5_SelectsIffQualifying ==
    [][ \A model \in ModelIds :
          SelectNodeForModel(model)
          => /\ (ret' # "none") <=> (Qualifying(model) # {})
             /\ ret' # "none" => ret' \in Qualifying(model)
             /\ ret' \in NodeIds \cup {"none"} ]_vars

\* The pool {A: only x, B: only y}: the selection for y gave B.
C5_Witness ==
    /\ DOMAIN nodes = {"A", "B"}
    /\ nodes["A"].client = "mock"
    /\ nodes["B"].client = "vllm"
    /\ Qualifying("x") = {"A"}
    /\ Qualifying("y") = {"B"}
    /\ Qualifying("z") = {}
    /\ call = Called("select_node_for_model", TRUE)
    /\ ret = "B"

\* C6: no selection returns a node that set_node_active(id, false) marked
\* inactive, until set_node_active(id, true) or add_node(id, ..) is called;
\* a node set active again is active, and under RoundRobin, with the pool
\* as that call left it, it is among the picks once as many picks were made
\* for a model it qualifies for as nodes qualify.
C6_InactiveNeverSelected ==
    /\ call.op = "select_node_for_model" => ret \notin deactivated
    /\ reactivated # "none" =>
          /\ reactivated \in DOMAIN nodes
          /\ nodes[reactivated].active
          /\ LET ids == Qualifying(rrTrace.model)
             IN  ( /\ reactivated \in ids
                   /\ Len(rrTrace.picks) >= Cardinality(ids) )
                 => reactivated \in Range(rrTrace.picks)

\* C is still marked inactive and stored; A was set active again and has
\* been returned in the two picks made since, B being the other one.
C6_Witness ==
    /\ "C" \in deactivated
    /\ "C" \in DOMAIN nodes
    /\ reactivated = "A"
    /\ Qualifying(rrTrace.model) = {"A", "B"}
    /\ Len(rrTrace.picks) = 2
    /\ call = Called("select_node_for_model", TRUE)
    /\ ret = "A"

\* C7: after add_node(id, c) the registry holds exactly one node for id,
\* with client c, active, and the metrics c reports at the call, whatever
\* was stored for id before; the other nodes are as they were, and the
\* node count grows by one exactly when id was absent.
C7_AddNodeReplaces ==
    [][ \A in \in AddInputs :
          AddNode(in[1], in[2]) =>
            /\ DOMAIN nodes' = DOMAIN nodes \cup {in[1]}
            /\ nodes'[in[1]] = [ id |-> in[1], client |-> in[2],
                                 metrics |-> clientMetrics[in[2]],
                                 active |-> TRUE ]
            /\ \A k \in DOMAIN nodes \ {in[1]} : nodes'[k] = nodes[k]
            /\ Cardinality(DOMAIN nodes') =
                 Cardinality(DOMAIN nodes)
                   + (IF in[1] \in DOMAIN nodes THEN 0 ELSE 1)
            /\ Len(order') = Cardinality(DOMAIN nodes')
            /\ Cardinality({ i \in DOMAIN order' : order'[i] = in[1] }) = 1
            /\ ret' = "unit"
      ]_vars

\* B was stored when add_node was called for it, and is now the only node:
\* active, with the local client and the metrics that client reports,
\* which are not the ones it was constructed with.
C7_Witness ==
    /\ call = Called("add_node", TRUE)
    /\ DOMAIN nodes = {"B"}
    /\ nodes["B"].client = "local"
    /\ nodes["B"].active
    /\ nodes["B"].metrics = clientMetrics["local"]
    /\ clientMetrics["local"] # ZeroMetrics

\* C8: remove_node(id) returns true exactly when id was stored and false
\* otherwise; afterwards id is absent, so that removing it again returns
\* false, the other nodes are unchanged, and when id was the only node no
\* selection for any model returns a node.
C8_RemoveNodeBool ==
    [][ \A id \in NodeIds :
          RemoveNode(id) =>
            /\ ret' = (IF id \in DOMAIN nodes THEN "true" ELSE "false")
            /\ DOMAIN nodes' = DOMAIN nodes \ {id}
            /\ \A k \in DOMAIN nodes' : nodes'[k] = nodes[k]
            /\ RetBool(id \in DOMAIN nodes') = "false"
            /\ Len(order') = Cardinality(DOMAIN nodes')
            /\ DOMAIN nodes \subseteq {id} =>
                 \A model \in ModelIds : (SelectNode(model).node)' = {}
      ]_vars

\* The only node of the registry has been removed, and the call said so.
C8_Witness ==
    /\ call = Called("remove_node", TRUE)
    /\ ret = "true"
    /\ nodes = << >>
    /\ \A model \in ModelIds : SelectNode(model).node = {}

\* C9: update_node_metrics(id, m) on a stored node returns true and sets
\* its metrics to m, its active flag, its client and all other nodes being
\* unchanged; on an absent id it returns false, changes nothing and
\* creates no node; on a node whose metrics are m already it returns true
\* and leaves the whole state of the registry as it was.
C9_UpdateMetricsExact ==
    [][ \A id \in NodeIds, m \in MetricsSamples :
          UpdateNodeMetrics(id, m) =>
            /\ DOMAIN nodes' = DOMAIN nodes
            /\ order' = order
            /\ round_robin_index' = round_robin_index
            /\ \A k \in DOMAIN nodes \ {id} : nodes'[k] = nodes[k]
            /\ IF id \in DOMAIN nodes
                 THEN /\ ret' = "true"
                      /\ nodes'[id].metrics = m
                      /\ nodes'[id].active = nodes[id].active
                      /\ nodes'[id].client = nodes[id].client
                      /\ nodes'[id].id = nodes[id].id
                      /\ nodes[id].metrics = m => nodes' = nodes
                 ELSE /\ ret' = "false"
                      /\ nodes' = nodes
      ]_vars

\* A stored update: an inactive node of the mock client holds metrics
\* that only update_node_metrics can have given it.
C9_Witness ==
    /\ call = Called("update_node_metrics", TRUE)
    /\ ret = "true"
    /\ \E id \in DOMAIN nodes :
          /\ nodes[id].client = "mock"
          /\ nodes[id].metrics = HeavyMetrics
          /\ ~nodes[id].active

\* C10: set_node_active(id, b) on a stored node returns true and sets its
\* active flag to b, its metrics, its client, all other nodes and the
\* round-robin cursor being unchanged; on an absent id it returns false
\* and the registry is unchanged, no node being created.
C10_SetActiveOnlyFlag ==
    [][ \A id \in NodeIds, b \in BOOLEAN :
          SetNodeActive(id, b) =>
            /\ DOMAIN nodes' = DOMAIN nodes
            /\ order' = order
            /\ round_robin_index' = round_robin_index
            /\ \A k \in DOMAIN nodes \ {id} : nodes'[k] = nodes[k]
            /\ IF id \in DOMAIN nodes
                 THEN /\ ret' = "true"
                      /\ nodes' = [ nodes EXCEPT ![id].active = b ]
                      /\ nodes'[id].metrics = nodes[id].metrics
                      /\ nodes'[id].client = nodes[id].client
                 ELSE /\ ret' = "false"
                      /\ nodes' = nodes
      ]_vars

\* A stored flag: with the cursor advanced by earlier RoundRobin
\* selections, a node holding pushed metrics has been set inactive.
C10_Witness ==
    /\ call = Called("set_node_active", TRUE)
    /\ ret = "true"
    /\ round_robin_index > 0
    /\ \E id \in DOMAIN nodes :
          /\ ~nodes[id].active
          /\ nodes[id].client = "mock"
          /\ nodes[id].metrics = HeavyMetrics

----------------------------------------------------------------------------
(* The registry under any id a caller may pass *)

\* The ids callers pass: add_node takes any String, the empty one included.
AnyIds == {"", "A", "B"}

NextIds ==
    \/ \E id \in AnyIds : AddNode(id, "mock") /\ UNCHANGED frame
    \/ \E id \in AnyIds : RemoveNode(id) /\ UNCHANGED frame
    \/ \E id \in AnyIds :
          UpdateNodeMetrics(id, HeavyMetrics) /\ UNCHANGED frame
    \/ \E id \in AnyIds, b \in BOOLEAN :
          SetNodeActive(id, b) /\ UNCHANGED frame

SpecIds == Init /\ [][NextIds]_vars

\* C11: every stored node has a non-empty id, equal to the key it is stored
\* under, and no two stored nodes have the same id.
C11_NonEmptyUniqueIds ==
    /\ \A k \in DOMAIN nodes : nodes[k].id = k /\ nodes[k].id # ""
    /\ \A i, j \in DOMAIN Values : Values[i].id = Values[j].id => i = j

\* The part of C11 the code keeps: a stored node's id is its key, and no
\* two stored nodes have the same id.
C11_UniqueIds ==
    /\ \A k \in DOMAIN nodes : nodes[k].id = k
    /\ \A i, j \in DOMAIN Values : Values[i].id = Values[j].id => i = j

\* Two nodes are stored, one of them re-added over an earlier entry.
C11_Witness ==
    /\ call = Called("add_node", TRUE)
    /\ Len(Values) = 2

----------------------------------------------------------------------------
(* Stream collectors *)

\* The chunks a stream delivers before it ends.
MaxChunks == 3

\* Option<T>: None, or Some of a value.
None == {}

Some(x) == {x}

\* Strings are sequences of characters, so that push_str is \o.
Hi == <<"H", "i">>

Texts == { << >>, <<"a">>, <<"b">> }

\* ChatMessageDelta
ChatMessageDelta(role, content) == [ role |-> role, content |-> content ]

\* ChatCompletionStreamChoice
ChatCompletionStreamChoice(index, delta, finish_reason) ==
    [ index |-> index, delta |-> delta, finish_reason |-> finish_reason ]

\* TextCompletionStreamChoice
TextCompletionStreamChoice(index, text, finish_reason) ==
    [ index |-> index, text |-> text, finish_reason |-> finish_reason ]

\* The choices chat chunks carry for an index: content alone, a
\* finish_reason alone, neither, both, and a first delta with a role.
ChatChoices(index) ==
    { ChatCompletionStreamChoice(index, ChatMessageDelta(None, Some(t)), None) :
        t \in {<<"a">>, <<"b">>} }
    \cup
    { ChatCompletionStreamChoice(index, ChatMessageDelta(None, None), f) :
        f \in {None, Some("stop"), Some("length")} }
    \cup
    { ChatCompletionStreamChoice(index,
          ChatMessageDelta(None, Some(<<"a">>)), Some("stop")),
      ChatCompletionStreamChoice(index,
          ChatMessageDelta(Some("assistant"), Some(Hi)), None) }

\* The choices text chunks carry for an index.
TextChoices(index) ==
    { TextCompletionStreamChoice(index, t, None) : t \in Texts }
    \cup
    { TextCompletionStreamChoice(index, << >>, f) :
        f \in {Some("stop"), Some("length")} }
    \cup
    { TextCompletionStreamChoice(index, <<"a">>, Some("stop")),
      TextCompletionStreamChoice(index, Hi, None) }

\* ChatCompletionChunk.choices: no choice, one choice for index 0 or 1, or
\* one choice for each of the two, in either order.
ChatChunks ==
    { << >> }
    \cup { <<c>> : c \in ChatChoices(0) \cup ChatChoices(1) }
    \cup { << ChatCompletionStreamChoice(0,
                 ChatMessageDelta(None, Some(<<"a">>)), None),
              ChatCompletionStreamChoice(1,
                 ChatMessageDelta(None, Some(<<"b">>)), None) >>,
           << ChatCompletionStreamChoice(1,
                 ChatMessageDelta(Some("user"), Some(<<"b">>)), Some("stop")),
              ChatCompletionStreamChoice(0,
                 ChatMessageDelta(None, Some(<<"a">>)), None) >> }

\* TextCompletionChunk.choices, likewise.
TextChunks ==
    { << >> }
    \cup { <<c>> : c \in TextChoices(0) \cup TextChoices(1) }
    \cup { << TextCompletionStreamChoice(0, <<"a">>, None),
              TextCompletionStreamChoice(1, <<"b">>, None) >>,
           << TextCompletionStreamChoice(1, <<"b">>, Some("stop")),
              TextCompletionStreamChoice(0, <<"a">>, None) >> }

\* What stream.next().await gives: None at the end of the stream, or Some
\* of an error or of a chunk.
StreamItems(chunks) ==
    { [ tag |-> "end", chunk |-> << >> ], [ tag |-> "err", chunk |-> << >> ] }
    \cup { [ tag |-> "chunk", chunk |-> c ] : c \in chunks }

\* The error a failing stream item carries.
StreamError == "Timeout"

NoResult == [ tag |-> "none", error |-> "", choices |-> << >> ]

Err(e) == [ tag |-> "err", error |-> e, choices |-> << >> ]

Ok(choices) == [ tag |-> "ok", error |-> "", choices |-> choices ]

\* choices.iter_mut().find(|(idx, ..)| *idx == index): the position of the
\* first entry of that index at or after i, or 0.
RECURSIVE FindChoice(_, _, _)
FindChoice(choices, index, i) ==
    IF i > Len(choices) THEN 0
    ELSE IF choices[i].index = index THEN i
    ELSE FindChoice(choices, index, i + 1)

\* Option::unwrap of a Some.
Unwrap(opt) == CHOOSE x \in opt : TRUE

\* collect_chat_completion_stream, the first chunk: one accumulator entry
\* (index, role, String::new(), finish_reason) per choice of the chunk.
ChatInit(chunk) ==
    [ i \in 1..Len(chunk) |->
        [ index         |-> chunk[i].index,
          role          |-> IF chunk[i].delta.role = None THEN "assistant"
                            ELSE Unwrap(chunk[i].delta.role),
          content       |-> << >>,
          finish_reason |-> chunk[i].finish_reason ] ]

\* The body of the loop over a later chat chunk's choices, pushing a choice
\* for an index the accumulator does not have.
ChatApplyAddsChoice(choices, choice) ==
    LET pos == FindChoice(choices, choice.index, 1)
    IN  IF pos = 0
          THEN Append(choices,
                      [ index |-> choice.index, role |-> "assistant",
                        content |-> IF choice.delta.content = None THEN << >>
                                    ELSE Unwrap(choice.delta.content),
                        finish_reason |-> choice.finish_reason ])
          ELSE [ choices EXCEPT
                   ![pos].content =
                       IF choice.delta.content = None THEN @
                       ELSE @ \o Unwrap(choice.delta.content),
                   ![pos].finish_reason =
                       IF choice.finish_reason = None THEN @
                       ELSE choice.finish_reason ]

\* The body of the loop over a later chat chunk's choices: push the content
\* to the entry found by index, then overwrite its finish_reason.
ChatApply(choices, choice) ==
    LET pos      == FindChoice(choices, choice.index, 1)
        appended == IF choice.delta.content # None /\ pos # 0
                      THEN [ choices EXCEPT ![pos].content =
                               @ \o Unwrap(choice.delta.content) ]
                      ELSE choices
    IN  IF choice.finish_reason # None /\ pos # 0
          THEN [ appended EXCEPT ![pos].finish_reason = choice.finish_reason ]
          ELSE appended

\* for choice in chunk.choices, from the i-th choice on.
RECURSIVE ChatFold(_, _, _)
ChatFold(choices, chunk, i) ==
    IF i > Len(chunk) THEN choices
    ELSE ChatFold(ChatApply(choices, chunk[i]), chunk, i + 1)

\* The ChatCompletionChoice values of the response.
ChatResponse(choices) ==
    [ i \in 1..Len(choices) |->
        [ index         |-> choices[i].index,
          message       |-> [ role |-> choices[i].role,
                              content |-> choices[i].content ],
          finish_reason |-> choices[i].finish_reason ] ]

\* The first text chunk read with empty buffers, as the chat collector does.
TextInitEmpty(chunk) ==
    [ i \in 1..Len(chunk) |->
        [ index         |-> chunk[i].index,
          text          |-> << >>,
          finish_reason |-> chunk[i].finish_reason ] ]

\* collect_text_completion_stream, the first chunk: one accumulator entry
\* (index, text, finish_reason) per choice of the chunk.
TextInit(chunk) ==
    [ i \in 1..Len(chunk) |->
        [ index         |-> chunk[i].index,
          text          |-> chunk[i].text,
          finish_reason |-> chunk[i].finish_reason ] ]

\* The body of the loop over a later text chunk's choices, keeping a
\* finish_reason once one is recorded.
TextApplyKeepsFinish(choices, choice) ==
    LET pos == FindChoice(choices, choice.index, 1)
    IN  IF pos = 0 THEN choices
        ELSE [ choices EXCEPT
                 ![pos].text = @ \o choice.text,
                 ![pos].finish_reason =
                     IF @ = None THEN choice.finish_reason ELSE @ ]

\* The body of the loop over a later text chunk's choices: push the text to
\* the entry found by index, then overwrite its finish_reason.
TextApply(choices, choice) ==
    LET pos      == FindChoice(choices, choice.index, 1)
        appended == IF pos # 0
                      THEN [ choices EXCEPT ![pos].text = @ \o choice.text ]
                      ELSE choices
    IN  IF choice.finish_reason # None /\ pos # 0
          THEN [ appended EXCEPT ![pos].finish_reason = choice.finish_reason ]
          ELSE appended

\* for choice in chunk.choices, from the i-th choice on.
RECURSIVE TextFold(_, _, _)
TextFold(choices, chunk, i) ==
    IF i > Len(chunk) THEN choices
    ELSE TextFold(TextApply(choices, chunk[i]), chunk, i + 1)

\* The TextCompletionChoice values of the response.
TextResponse(choices) ==
    [ i \in 1..Len(choices) |->
        [ index         |-> choices[i].index,
          text          |-> choices[i].text,
          finish_reason |-> choices[i].finish_reason ] ]

\* An empty stream answered with a response without choices.
EmptyStreamOk == Ok(<< >>)

\* The else branch of the first stream.next(): the stream gave nothing.
EmptyStream == Err("RequestFailed")

\* The variables of the registry and its clients.
registry == <<strategy, nodes, order, round_robin_index, clientMetrics,
              backendUp, call, ret>>

\* collect_chat_completion_stream or collect_text_completion_stream is
\* called with a stream: let mut choices = Vec::new().
StartCollect(kind) ==
    /\ collector.pc = "idle"
    /\ collector' = [ kind |-> kind, pc |-> "first", choices |-> << >>,
                      result |-> NoResult ]
    /\ consumed' = << >>
    /\ UNCHANGED <<registry, observers, tasks, config, inflight, reply>>

\* A collector that answers an error item of the while loop like the end
\* of the stream, with the response built from the chunks so far.
CollectKeepsFragments(kind, pc, item, next) ==
    /\ collector.kind = kind
    /\ collector.pc = pc
    /\ item.tag = "chunk" => Len(consumed) < MaxChunks
    /\ collector' = [ collector EXCEPT
                        !.pc = IF item.tag = "chunk" THEN "rest" ELSE "done",
                        !.choices = IF item.tag = "chunk" THEN next ELSE @,
                        !.result =
                            CASE item.tag = "chunk" -> @
                              [] item.tag = "err" /\ pc = "first" ->
                                   Err(StreamError)
                              [] item.tag = "end" /\ pc = "first" -> EmptyStream
                              [] item.tag \in {"end", "err"} /\ pc = "rest" ->
                                   Ok(IF kind = "chat"
                                        THEN ChatResponse(collector.choices)
                                        ELSE TextResponse(collector.choices)) ]
    /\ consumed' = IF item.tag = "chunk" THEN Append(consumed, item.chunk)
                   ELSE consumed
    /\ UNCHANGED <<registry, observers, tasks, config, inflight, reply>>

\* One stream.next() of a collector at pc, with the collector's code for
\* the first chunk (init) and for a later one (fold), and its response.
Collect(kind, pc, item, next) ==
    /\ collector.kind = kind
    /\ collector.pc = pc
    /\ item.tag = "chunk" => Len(consumed) < MaxChunks
    /\ collector' = [ collector EXCEPT
                        !.pc = IF item.tag = "chunk" THEN "rest" ELSE "done",
                        !.choices = IF item.tag = "chunk" THEN next ELSE @,
                        !.result =
                            CASE item.tag = "chunk" -> @
                              [] item.tag = "err" -> Err(StreamError)
                              [] item.tag = "end" /\ pc = "first" -> EmptyStream
                              [] item.tag = "end" /\ pc = "rest" ->
                                   Ok(IF kind = "chat"
                                        THEN ChatResponse(collector.choices)
                                        ELSE TextResponse(collector.choices)) ]
    /\ consumed' = IF item.tag = "chunk" THEN Append(consumed, item.chunk)
                   ELSE consumed
    /\ UNCHANGED <<registry, observers, tasks, config, inflight, reply>>

\* collect_chat_completion_stream: the first stream.next().
CollectChatFirst(item) ==
    Collect("chat", "first", item, ChatInit(item.chunk))

\* collect_chat_completion_stream: a stream.next() of the while loop.
CollectChatRest(item) ==
    Collect("chat", "rest", item, ChatFold(collector.choices, item.chunk, 1))

\* collect_text_completion_stream: the first stream.next().
CollectTextFirst(item) ==
    Collect("text", "first", item, TextInit(item.chunk))

\* collect_text_completion_stream: a stream.next() of the while loop.
CollectTextRest(item) ==
    Collect("text", "rest", item, TextFold(collector.choices, item.chunk, 1))

NextCollect ==
    \/ \E kind \in {"chat", "text"} : StartCollect(kind)
    \/ \E item \in StreamItems(ChatChunks) : CollectChatFirst(item)
    \/ \E item \in StreamItems(ChatChunks) : CollectChatRest(item)
    \/ \E item \in StreamItems(TextChunks) : CollectTextFirst(item)
    \/ \E item \in StreamItems(TextChunks) : CollectTextRest(item)

\* A collector runs whatever the registry holds: one registry is taken.
InitCollect == Init /\ strategy = "RoundRobin" /\ backendUp

SpecCollect == InitCollect /\ [][NextCollect]_vars

----------------------------------------------------------------------------
(* Claims on the stream collectors *)

\* The choices of the chunks from the k-th on, in stream order.
RECURSIVE Flatten(_, _)
Flatten(chunks, k) ==
    IF k > Len(chunks) THEN << >>
    ELSE chunks[k] \o Flatten(chunks, k + 1)

\* The content deltas that chat choices carry for an index, concatenated.
RECURSIVE ChatCarried(_, _, _)
ChatCarried(deltas, index, i) ==
    IF i > Len(deltas) THEN << >>
    ELSE (IF deltas[i].index = index /\ deltas[i].delta.content # None
            THEN Unwrap(deltas[i].delta.content) ELSE << >>)
         \o ChatCarried(deltas, index, i + 1)

\* The text that text choices carry for an index, concatenated.
RECURSIVE TextCarried(_, _, _)
TextCarried(deltas, index, i) ==
    IF i > Len(deltas) THEN << >>
    ELSE (IF deltas[i].index = index THEN deltas[i].text ELSE << >>)
         \o TextCarried(deltas, index, i + 1)

\* A collector of that kind has returned a response.
Returned(kind) ==
    /\ collector.kind = kind
    /\ collector.pc = "done"
    /\ collector.result.tag = "ok"

\* C12: the response of collect_chat_completion_stream has, for each of
\* its choices, as message content the concatenation in stream order of the
\* content deltas that all chunks of the stream, the first included, carry
\* for the choice's index; the stream of one chunk with one choice of role
\* "assistant" and content "Hi" gives one choice of content "Hi".
C12_ChatContentComplete ==
    Returned("chat") =>
       \A i \in DOMAIN collector.result.choices :
          collector.result.choices[i].message.content
            = ChatCarried(Flatten(consumed, 1),
                          collector.result.choices[i].index, 1)

\* What the chat collector returns instead: the concatenation of the
\* content deltas of the chunks after the first.
C12_ChatContentAfterFirst ==
    Returned("chat") =>
       \A i \in DOMAIN collector.result.choices :
          collector.result.choices[i].message.content
            = ChatCarried(Flatten(consumed, 2),
                          collector.result.choices[i].index, 1)

\* The stream of the one chunk "Hi" was collected: the response has one
\* choice, of role "assistant", and its content is empty.
C12_Witness ==
    /\ Returned("chat")
    /\ consumed = << << ChatCompletionStreamChoice(0,
                           ChatMessageDelta(Some("assistant"), Some(Hi)),
                           None) >> >>
    /\ Len(collector.result.choices) = 1
    /\ collector.result.choices[1].message.role = "assistant"
    /\ collector.result.choices[1].message.content = << >>

C14_EmptyStreamFails ==
    [][ \A item \in StreamItems(ChatChunks) \cup StreamItems(TextChunks) :
          ( /\ item.tag = "end"
            /\ CollectChatFirst(item) \/ CollectTextFirst(item) )
          => /\ collector'.pc = "done"
             /\ collector'.result.tag = "err"
             /\ collector'.result.error = "RequestFailed"
             /\ collector'.result.choices = << >>
             /\ consumed' = << >> ]_vars

\* The text collector has failed with RequestFailed on a stream that gave
\* no chunk.
C14_Witness ==
    /\ collector.kind = "text"
    /\ collector.pc = "done"
    /\ consumed = << >>
    /\ collector.result = Err("RequestFailed")

\* The finish_reason of the last of the first i choices that is for the
\* index and carries a finish_reason; None if there is no such choice.
RECURSIVE LastFinish(_, _, _)
LastFinish(deltas, index, i) ==
    IF i = 0 THEN None
    ELSE IF deltas[i].index = index /\ deltas[i].finish_reason # None
           THEN deltas[i].finish_reason
    ELSE LastFinish(deltas, index, i - 1)

Indices(choices) == [ i \in 1..Len(choices) |-> choices[i].index ]

\* What a later stream.next() that gave item leaves: after a chunk, no
\* result yet and one accumulator entry per choice of the first chunk, in
\* that chunk's order, nothing being changed if all the chunk's choices are
\* for other indices; at the end, a response with exactly those choices.
KeepsChoices(item) ==
    /\ item.tag = "chunk" =>
         /\ collector'.pc = "rest"
         /\ collector'.result = NoResult
         /\ Indices(collector'.choices) = Indices(consumed[1])
         /\ (\A j \in DOMAIN item.chunk :
                \A i \in DOMAIN consumed[1] :
                   item.chunk[j].index # consumed[1][i].index)
            => collector'.choices = collector.choices
    /\ item.tag = "end" =>
         /\ collector'.result.tag = "ok"
         /\ Indices(collector'.result.choices) = Indices(consumed[1])

\* C16: in either collector the first chunk alone establishes the choices:
\* after every later chunk the accumulator has one entry per choice of the
\* first chunk, in that chunk's order, a chunk whose choices are all for
\* other indices changes nothing and is no error, and the response has
\* exactly those choices in that order.
C16_FirstChunkEstablishes ==
    [][ /\ \A item \in StreamItems(ChatChunks) :
             CollectChatRest(item) => KeepsChoices(item)
        /\ \A item \in StreamItems(TextChunks) :
             CollectTextRest(item) => KeepsChoices(item) ]_vars

\* The first chunk had a choice for index 0 only, a later chunk carried
\* "b" for index 1, and the response has the one choice, of index 0.
C16_Witness ==
    /\ Returned("text")
    /\ Len(consumed) = 2
    /\ Indices(consumed[1]) = <<0>>
    /\ consumed[2] = << TextCompletionStreamChoice(1, <<"b">>, None) >>
    /\ Indices(collector.result.choices) = <<0>>
    /\ collector.result.choices[1].text = consumed[1][1].text

----------------------------------------------------------------------------
(* Requests to the backend clients *)

\* The LocalLlmClient calls under way at once.
MaxCalls == 2

\* The largest active_requests the local client is taken to.
MaxActive == 3

\* The request methods of LlmClient.
Ops == {"chat_completion", "text_completion", "embeddings"}

\* What the POST of a request to the server comes to: a success that
\* parses, a send() error, a send() error that says "model not found", an
\* error status 404, an error status 500, or a success that does not parse.
Posts == {"ok", "send_error", "send_model_not_found", "status_404",
          "status_500", "unparsable"}

\* The ids a list of ModelInfo holds.
ModelsOf(models) == { models[i].id : i \in DOMAIN models }

Reply(client, op, model, listed, result, models) ==
    [ client |-> client, op |-> op, model |-> model, listed |-> listed,
      result |-> result, models |-> models ]

\* VllmLlmClient::embeddings answering a listed model as a failed request.
VllmEmbeddingsFails(model, probe) ==
    IF model \notin ModelsOf(HttpSupportedModels(VllmModel, probe))
      THEN "ModelNotSupported"
      ELSE "RequestFailed"

\* VllmLlmClient::embeddings
VllmEmbeddings(model, probe) ==
    IF model \notin ModelsOf(HttpSupportedModels(VllmModel, probe))
      THEN "ModelNotSupported"
      ELSE "NotImplemented"

\* VllmLlmClient::chat_completion and text_completion: the model check,
\* then the POST, every failure of which is a RequestFailed.
VllmCompletion(model, probe, post) ==
    IF model \notin ModelsOf(HttpSupportedModels(VllmModel, probe))
      THEN "ModelNotSupported"
      ELSE IF post = "ok" THEN "Ok" ELSE "RequestFailed"

\* OllamaLlmClient::chat_completion: the model check, then the POST.
OllamaChatCompletion(model, probe, post) ==
    IF model \notin ModelsOf(HttpSupportedModels(OllamaModel, probe))
      THEN "ModelNotSupported"
      ELSE CASE post = "ok" -> "Ok"
             [] post = "send_model_not_found" -> "ModelNotSupported"
             [] post = "send_error" -> "RequestFailed"
             [] post = "status_404" -> "ModelNotSupported"
             [] post = "status_500" -> "RequestFailed"
             [] post = "unparsable" -> "RequestFailed"

\* OllamaLlmClient::text_completion: the model check, then chat_completion,
\* which probes the server once more.
OllamaTextCompletion(model, probe, again, post) ==
    IF model \notin ModelsOf(HttpSupportedModels(OllamaModel, probe))
      THEN "ModelNotSupported"
      ELSE OllamaChatCompletion(model, again, post)

\* OllamaLlmClient::embeddings: no model check.
OllamaEmbeddings(model) == "NotImplemented"

\* A request to the vLLM client, answered.
VllmRequest(op, model, probe, post) ==
    /\ reply' = Reply("vllm", op, model,
                      model \in ModelsOf(HttpSupportedModels(VllmModel, probe)),
                      IF op = "embeddings" THEN VllmEmbeddings(model, probe)
                      ELSE VllmCompletion(model, probe, post),
                      << >>)
    /\ UNCHANGED <<registry, observers, tasks, config, consumed, collector, inflight>>

\* A request to the Ollama client, answered.
OllamaRequest(op, model, probe, again, post) ==
    /\ reply' = Reply("ollama", op, model,
                      model \in ModelsOf(HttpSupportedModels(OllamaModel, probe)),
                      CASE op = "embeddings" -> OllamaEmbeddings(model)
                        [] op = "chat_completion" ->
                             OllamaChatCompletion(model, probe, post)
                        [] op = "text_completion" ->
                             OllamaTextCompletion(model, probe, again, post),
                      << >>)
    /\ UNCHANGED <<registry, observers, tasks, config, consumed, collector, inflight>>

\* The measured durations of a local call, in ms.
Durations == {0, 10}

\* The smallest call id not in use.
FreeId == CHOOSE id \in 1..(Cardinality(inflight) + 1) :
             \A c \in inflight : c.id # id

\* A request method of LocalLlmClient up to its first await: the model
\* check, which answers at once for a model that is not configured, and
\* else the call of record_request_start, standing at its lock.
LocalRequest(op, model) ==
    /\ Cardinality(inflight) < MaxCalls
    /\ IF model \notin ModelsOf(LocalModels)
         THEN /\ reply' = Reply("local", op, model, FALSE,
                                "ModelNotSupported", << >>)
              /\ inflight' = inflight
         ELSE /\ inflight' = inflight \cup
                    { [ id |-> FreeId, op |-> op, model |-> model,
                        pc |-> "start" ] }
              /\ reply' = reply
    /\ UNCHANGED <<registry, observers, tasks, config, consumed, collector>>

\* record_request_start takes the lock: active_requests += 1.  The call
\* builds its response and stands at the lock of record_request_end.
LocalRecordRequestStart(c) ==
    /\ c \in inflight
    /\ c.pc = "start"
    /\ clientMetrics["local"].active_requests < MaxActive
    /\ clientMetrics' = [ clientMetrics EXCEPT
                            !["local"].active_requests = @ + 1 ]
    /\ inflight' = (inflight \ {c}) \cup { [ c EXCEPT !.pc = "end" ] }
    /\ UNCHANGED <<strategy, nodes, order, round_robin_index, backendUp,
                   call, ret, observers, tasks, config, consumed, collector,
                   reply>>

\* record_request_end takes the lock: saturating_sub(1) and the moving
\* average old * 0.9 + duration * 0.1, cut to an integer.  The call returns.
LocalRecordRequestEnd(c, duration_ms) ==
    /\ c \in inflight
    /\ c.pc = "end"
    /\ clientMetrics' = [ clientMetrics EXCEPT
          !["local"].active_requests = IF @ = 0 THEN 0 ELSE @ - 1,
          !["local"].average_response_time_ms =
              (9 * @ + duration_ms) \div 10 ]
    /\ inflight' = inflight \ {c}
    /\ reply' = Reply("local", c.op, c.model, TRUE, "Ok", << >>)
    /\ UNCHANGED <<strategy, nodes, order, round_robin_index, backendUp,
                   call, ret, observers, tasks, config, consumed, collector>>

\* The caller drops the future of a call at the await it stands at, as a
\* timeout around the call does.
LocalAbandon(c) ==
    /\ c \in inflight
    /\ inflight' = inflight \ {c}
    /\ UNCHANGED <<registry, observers, tasks, config, consumed, collector, reply>>

\* The HTTP clients share nothing with the local client, and their requests
\* are answered in one step: they are taken between the local client's
\* calls.
NextClients ==
    \/ \E op \in Ops, model \in ModelIds : LocalRequest(op, model)
    \/ \E c \in inflight : LocalRecordRequestStart(c)
    \/ \E c \in inflight, d \in Durations : LocalRecordRequestEnd(c, d)
    \/ \E c \in inflight : LocalAbandon(c)
    \/ /\ inflight = {}
       /\ \E op \in Ops, model \in ModelIds, probe \in Probes, post \in Posts :
             VllmRequest(op, model, probe, post)
    \/ /\ inflight = {}
       /\ \E op \in Ops, model \in ModelIds, probe \in Probes,
             again \in Probes, post \in Posts :
             OllamaRequest(op, model, probe, again, post)

\* The clients are called whatever the registry holds: one is taken.
InitClients == Init /\ strategy = "RoundRobin" /\ backendUp

SpecClients == InitClients /\ [][NextClients]_vars

----------------------------------------------------------------------------
(* Claims about the requests *)

\* A step that answers a request.
Answered == reply' # reply

\* C17: a request of any method to the local, vLLM or Ollama client whose
\* model is absent from the client's get_supported_models() fails with
\* ModelNotSupported and leaves the client's metrics as they were.
C17_UnlistedModelNotSupported ==
    [][ (Answered /\ ~reply'.listed) =>
          /\ reply'.result = "ModelNotSupported"
          /\ clientMetrics' = clientMetrics ]_vars

\* C17, but for OllamaLlmClient::embeddings, which makes no model check.
C17_UnlistedExceptOllamaEmbeddings ==
    [][ (Answered /\ ~reply'.listed
           /\ ~(reply'.client = "ollama" /\ reply'.op = "embeddings")) =>
          /\ reply'.result = "ModelNotSupported"
          /\ clientMetrics' = clientMetrics ]_vars

\* The Ollama client has answered an embeddings request for a model it does
\* not list with NotImplemented.
C17_Witness ==
    /\ reply.client = "ollama"
    /\ reply.op = "embeddings"
    /\ reply.model = "z"
    /\ ~reply.listed
    /\ reply.result = "NotImplemented"

\* C18: the vLLM and the Ollama client answer an embeddings request for a
\* model they list with NotImplemented, never with RequestFailed or Ok.
C18_EmbeddingsNotImplemented ==
    (reply.client \in {"vllm", "ollama"} /\ reply.op = "embeddings"
       /\ reply.listed)
      => reply.result = "NotImplemented"

\* The vLLM client has answered an embeddings request for the model it lists.
C18_Witness ==
    /\ reply.client = "vllm"
    /\ reply.op = "embeddings"
    /\ reply.model = VllmModel
    /\ reply.listed
    /\ reply.result = "NotImplemented"

\* The calls of the local client that have incremented active_requests and
\* have not returned.
Counted == { c \in inflight : c.pc = "end" }

\* C20: under any interleaving of calls to a LocalLlmClient, active_requests
\* is never negative and equals the number of calls in flight that have
\* incremented it, so it is 0 whenever no call is in flight.
C20_ActiveCountsInFlight ==
    /\ clientMetrics["local"].active_requests >= 0
    /\ clientMetrics["local"].active_requests = Cardinality(Counted)

\* C20, as far as the code goes: active_requests is never negative and
\* never below the number of calls in flight that have incremented it.
C20_ActiveNeverUndercounts ==
    /\ clientMetrics["local"].active_requests >= 0
    /\ clientMetrics["local"].active_requests >= Cardinality(Counted)

\* No call is in flight and active_requests is not 0: a call was dropped
\* after its increment.
C20_Witness ==
    /\ inflight = {}
    /\ clientMetrics["local"].active_requests > 0

----------------------------------------------------------------------------
(* The model listing of the HTTP clients *)

HttpClients == {"vllm", "ollama"}

\* The model an HTTP client is constructed with.
ConfiguredModel(c) == IF c = "vllm" THEN VllmModel ELSE OllamaModel

\* A call of get_supported_models on an HTTP client, whose GET comes to
\* probe: the Vec it returns.
ProbeModels(c, probe) ==
    /\ reply' = Reply(c, "get_supported_models", ConfiguredModel(c),
                      ValidModel(ConfiguredModel(c), probe), "Ok",
                      HttpSupportedModels(ConfiguredModel(c), probe))
    /\ UNCHANGED <<registry, observers, tasks, config, consumed, collector, inflight>>

\* The nodes registered with an HTTP client, and one with the local client.
HttpInputs == { <<"A", "vllm">>, <<"B", "ollama">>, <<"C", "local">> }

NextProbe ==
    \/ \E c \in HttpClients, probe \in Probes : ProbeModels(c, probe)
    \/ \E in \in HttpInputs : AddNode(in[1], in[2]) /\ UNCHANGED frame
    \/ \E id \in NodeIds : RemoveNode(id) /\ UNCHANGED frame
    \/ \E id \in NodeIds, b \in BOOLEAN :
          SetNodeActive(id, b) /\ UNCHANGED frame
    \/ \E model \in ModelIds :
          SelectNodeForModel(model) /\ UNCHANGED frame
    \/ BackendChange /\ UNCHANGED frame

SpecProbe == Init /\ [][NextProbe]_vars

\* The probe found a response with a success status whose body parses and
\* reports the model.
Reports(probe, model) ==
    probe.sent /\ probe.success /\ probe.parsed /\ model \in probe.ids

\* C19: get_supported_models of the vLLM and the Ollama client returns the
\* empty list when the probe fails, has an error status, does not parse or
\* does not report the configured model, and else exactly one ModelInfo
\* whose id is the configured model; a node with such a client is selected
\* for a model only if that is its configured model and the probe of the
\* selection succeeds.
C19_ListsConfiguredModelOrNothing ==
    [][ /\ \A c \in HttpClients, probe \in Probes :
              ProbeModels(c, probe) =>
                /\ reply'.result = "Ok"
                /\ IF Reports(probe, ConfiguredModel(c))
                     THEN /\ Len(reply'.models) = 1
                          /\ reply'.models[1].id = ConfiguredModel(c)
                     ELSE reply'.models = << >>
        /\ \A model \in ModelIds :
              (/\ SelectNodeForModel(model)
               /\ ret' \in DOMAIN nodes
               /\ nodes[ret'].client \in HttpClients) =>
                /\ model = ConfiguredModel(nodes[ret'].client)
                /\ Reports(ServerProbe(model), model) ]_vars

\* A listing has come back with the configured model, and a node with the
\* Ollama client has been selected.
C19_Witness ==
    /\ reply.op = "get_supported_models"
    /\ Len(reply.models) = 1
    /\ call = Called("select_node_for_model", TRUE)
    /\ ret \in DOMAIN nodes
    /\ nodes[ret].client = "ollama"

----------------------------------------------------------------------------
(* The dispatch boundary: process_llm_request and report_metrics *)

\* The id OpenRouterContext::new registers its own client under.
DefaultId == "default"

\* A fallback that looks the client up in the registry under "default".
ServingClientRegistered(selected) ==
    IF selected # {} THEN (CHOOSE n \in selected : TRUE).client
    ELSE IF DefaultId \in DOMAIN nodes THEN nodes[DefaultId].client
    ELSE "local"

\* The client process_llm_request calls: the selected node's, or the
\* context's own client when no node was selected.
ServingClient(selected) ==
    IF selected = {} THEN "local" ELSE (CHOOSE n \in selected : TRUE).client

\* What the request method op of client c answers for model, when the POST
\* an HTTP client makes comes to post.
BackendCall(c, op, model, post) ==
    CASE c = "local" ->
           IF model \notin ModelsOf(LocalModels) THEN "ModelNotSupported"
           ELSE "Ok"
      [] c = "vllm" ->
           IF op = "embeddings"
             THEN VllmEmbeddings(model, ServerProbe(VllmModel))
             ELSE VllmCompletion(model, ServerProbe(VllmModel), post)
      [] c = "ollama" ->
           CASE op = "embeddings" -> OllamaEmbeddings(model)
             [] op = "chat_completion" ->
                  OllamaChatCompletion(model, ServerProbe(OllamaModel), post)
             [] op = "text_completion" ->
                  OllamaTextCompletion(model, ServerProbe(OllamaModel),
                                       ServerProbe(OllamaModel), post)

\* OpenRouterContext::update_metrics, as far as the registry goes:
\* update_node_metrics("default", metrics of the context's own client).
PushMetrics(ns, metrics) ==
    IF DefaultId \in DOMAIN ns
      THEN [ ns EXCEPT ![DefaultId].metrics = metrics ]
      ELSE ns

\* get_capabilities().supports_streaming of each client.
SupportsStreaming(c) == c \in {"vllm", "mock"}

\* as_streaming that hands out every client whose capabilities say it
\* streams.
AsStreamingByCapability(c) == IF SupportsStreaming(c) THEN Some(c) ELSE None

\* LlmClientExt::as_streaming: None for a client that does not claim to
\* stream, and the placeholder None for one that does.
AsStreaming(c) == IF ~SupportsStreaming(c) THEN None ELSE None

\* process_llm_request: select a node, call its client (a served call of
\* the local client records its duration), and, unless the call failed and
\* the ? operator returned the error, update_metrics.  A chat or text
\* request with stream = true goes to the client's streaming method and a
\* stream collector if as_streaming gives a streaming client, and to the
\* plain method otherwise.  What it returns is kept as Ok or the kind of the
\* client's error.
ProcessLlmRequest(op, model, stream, post, duration_ms) ==
    LET sel      == SelectNode(model)
        client   == ServingClient(sel.node)
        streamed == /\ stream
                    /\ op # "embeddings"
                    /\ AsStreaming(client) # None
        result   == IF streamed THEN "Ok"
                    ELSE BackendCall(client, op, model, post)
        after    == IF client = "local" /\ result = "Ok"
                      THEN [ clientMetrics EXCEPT
                               !["local"].average_response_time_ms =
                                   (9 * @ + duration_ms) \div 10 ]
                      ELSE clientMetrics
    IN  /\ round_robin_index' = sel.index
        /\ clientMetrics' = after
        /\ nodes' = IF result = "Ok" THEN PushMetrics(nodes, after["local"])
                    ELSE nodes
        /\ call' = Called("process_llm_request", sel.node # {})
        /\ ret' = result
        /\ IF streamed
             THEN /\ collector' =
                       [ kind |-> IF op = "chat_completion" THEN "chat"
                                  ELSE "text",
                         pc |-> "done", choices |-> << >>,
                         result |-> Ok(<< >>) ]
                  /\ consumed' = << >>
             ELSE UNCHANGED <<consumed, collector>>
        /\ UNCHANGED <<strategy, order, backendUp, observers, inflight,
                       reply, tasks, config>>

\* report_metrics: update_metrics, then the context's metrics are returned.
ReportMetrics ==
    /\ nodes' = PushMetrics(nodes, GetMetrics("local"))
    /\ call' = Called("report_metrics", TRUE)
    /\ ret' = "unit"
    /\ UNCHANGED <<strategy, order, round_robin_index, clientMetrics,
                   backendUp, frame>>

\* The nodes added through add_llm_node, and the context's own again.
DispatchInputs ==
    { <<DefaultId, "local">>, <<"B", "vllm">>, <<"C", "ollama">> }

\* The POSTs of a dispatched request: answered, refused with status 404,
\* refused with status 500.
DispatchPosts == {"ok", "status_404", "status_500"}

NextDispatch ==
    \/ \E op \in Ops, model \in ModelIds, post \in DispatchPosts,
          d \in Durations :
          ProcessLlmRequest(op, model, FALSE, post, d)
    \/ ReportMetrics
    \/ \E in \in DispatchInputs : AddNode(in[1], in[2]) /\ UNCHANGED frame
    \/ LocalUpdateMetrics(9, 3) /\ UNCHANGED frame
    \/ BackendChange /\ UNCHANGED frame

\* The state OpenRouterContext::new leaves: the context's client is
\* registered as "default" with the metrics it had.
InitDispatch ==
    /\ strategy \in Strategies
    /\ nodes = [ id \in {DefaultId} |->
                   [ id |-> DefaultId, client |-> "local",
                     metrics |-> ZeroMetrics, active |-> TRUE ] ]
    /\ order = << DefaultId >>
    /\ round_robin_index = 0
    /\ clientMetrics = [ c \in Clients |->
                           IF c = "mock" THEN MockMetrics ELSE ZeroMetrics ]
    /\ backendUp \in BOOLEAN
    /\ call = Called("new", FALSE)
    /\ ret = "unit"
    /\ rrTrace = [ model |-> "", picks |-> << >> ]
    /\ history = << >>
    /\ deactivated = {}
    /\ reactivated = "none"
    /\ consumed = << >>
    /\ collector = [ kind |-> "none", pc |-> "idle", choices |-> << >>,
                     result |-> NoResult ]
    /\ inflight = {}
    /\ reply = Reply("none", "none", "", FALSE, "none", << >>)
    /\ tasks = [ t \in TaskIds |-> Idle ]
    /\ config = NoConfig

SpecDispatch == InitDispatch /\ [][NextDispatch]_vars

\* A step of process_llm_request for a request of method op and model.
Dispatched(op, model, post) ==
    \E d \in Durations : ProcessLlmRequest(op, model, FALSE, post, d)

\* C21: after every request process_llm_request has handled, whether the
\* backend call succeeded or failed, the registry holds the current metrics
\* of the client that was called, for every node of that client.
C21_MetricsPushedAfterEveryRequest ==
    [][ \A op \in Ops, model \in ModelIds, post \in DispatchPosts :
          Dispatched(op, model, post) =>
            \A id \in DOMAIN nodes' :
               nodes'[id].client = ServingClient(SelectNode(model).node) =>
                 nodes'[id].metrics = clientMetrics'[nodes'[id].client]
      ]_vars

\* C21 for the requests whose backend call succeeded: the node "default"
\* then holds the current metrics of the context's own client.
C21_MetricsPushedAfterSuccess ==
    [][ \A op \in Ops, model \in ModelIds, post \in DispatchPosts :
          (Dispatched(op, model, post) /\ ret' = "Ok"
             /\ DefaultId \in DOMAIN nodes') =>
            nodes'[DefaultId].metrics = clientMetrics'["local"]
      ]_vars

\* A request has failed and the registry's metrics of "default" are not
\* those of its client.
C21_Witness ==
    /\ call.op = "process_llm_request"
    /\ ret \notin {"Ok", "unit", "none", "true", "false"}
    /\ DefaultId \in DOMAIN nodes
    /\ nodes[DefaultId].metrics # clientMetrics["local"]

----------------------------------------------------------------------------
(* The registry's operations statement by statement, run concurrently *)

\* The statements of each operation, in order.  "read" and "write" await
\* the lock of LoadBalancer.nodes and "index_write" that of
\* round_robin_index; "unlock" is the end of get_active_nodes, where its
\* read guard is dropped; "return" drops every guard the call holds.
Program(op) ==
    CASE op = "add_node" -> <<"get_metrics", "write", "insert", "return">>
      [] op = "remove_node" -> <<"write", "remove", "return">>
      [] op = "update_node_metrics" ->
           <<"write", "update", "update_rest", "return">>
      [] op = "set_node_active" -> <<"write", "set_active", "return">>
      [] op = "get_node" -> <<"read", "get", "return">>
      [] op = "get_all_nodes" -> <<"read", "values", "return">>
      [] op = "select_node_for_model" ->
           ( CASE strategy = "RoundRobin" ->
                    <<"read", "active_values", "unlock",
                      "get_supported_models", "index_write", "read_index",
                      "write_index", "return">>
               [] strategy = "CapabilityBased" ->
                    <<"read", "active_values", "unlock",
                      "get_supported_models", "score_all", "return">>
               [] strategy \in {"LeastLoaded", "LatencyBased"} ->
                    <<"read", "active_values", "unlock",
                      "get_supported_models", "pick", "return">> )
      [] op = "calculate_capability_score_for_model" ->
           <<"read", "get", "get_supported_models", "score", "return">>
      [] op = "idle" -> << >>

\* The statement a task stands at.
Statement(t) ==
    IF tasks[t].pc \in DOMAIN Program(tasks[t].op)
      THEN Program(tasks[t].op)[tasks[t].pc]
      ELSE "none"

\* Where the call of a task returns.
ReturnAt(t) == Len(Program(tasks[t].op))

\* The call of a task has returned.
HasReturned(t) == tasks[t].op # "idle" /\ tasks[t].pc = ReturnAt(t) + 1

\* The statements that call into a backend client.
ClientCalls == {"get_metrics", "get_supported_models", "score_all"}

\* The guard a statement awaits.
LockOf(stmt) ==
    CASE stmt = "read" -> "nodes.read"
      [] stmt = "write" -> "nodes.write"
      [] stmt = "index_write" -> "index.write"

\* A lock handing out its guard whoever holds one.
FreeAlways(t, stmt) == TRUE

\* tokio's RwLock hands out a read guard while no task holds the write
\* guard, and a write guard while no task holds any guard.
Free(t, stmt) ==
    CASE stmt = "read" ->
           \A u \in TaskIds \ {t} : "nodes.write" \notin tasks[u].holds
      [] stmt = "write" ->
           \A u \in TaskIds \ {t} :
              tasks[u].holds \cap {"nodes.read", "nodes.write"} = {}
      [] stmt = "index_write" ->
           \A u \in TaskIds \ {t} : "index.write" \notin tasks[u].holds

\* What a step of a task leaves as it is, the registry apart.
untouched == <<strategy, clientMetrics, backendUp, call, ret, observers,
               consumed, collector, inflight, reply, config>>

\* A caller calls an operation.
StartCall(t, c) ==
    /\ tasks[t].op = "idle"
    /\ tasks' = [ tasks EXCEPT ![t] =
                    [ Idle EXCEPT !.op = c.op, !.pc = 1, !.id = c.id,
                                  !.arg = c.arg ] ]
    /\ UNCHANGED <<nodes, order, round_robin_index, untouched>>

\* self.nodes.read().await, self.nodes.write().await and
\* self.round_robin_index.write().await
Acquire(t) ==
    /\ Statement(t) \in {"read", "write", "index_write"}
    /\ Free(t, Statement(t))
    /\ tasks' = [ tasks EXCEPT ![t].holds = @ \cup {LockOf(Statement(t))},
                               ![t].pc = @ + 1 ]
    /\ UNCHANGED <<nodes, order, round_robin_index, untouched>>

\* client.get_metrics() of add_node, and the get_supported_models() calls
\* of select_node_for_model (one for every active node) and of
\* calculate_capability_score_for_model, which keeps the list in its local
\* supported_models.  A call that finds no node supporting the model
\* returns None.
ClientCall(t) ==
    /\ Statement(t) \in {"get_metrics", "get_supported_models"}
    /\ LET self == tasks[t]
           supporting ==
               SelectSeq(self.nodes, LAMBDA n : SupportsModel(n, self.id))
           probes ==
               \E i \in DOMAIN self.nodes :
                  self.nodes[i].client \in HttpClients
           n == CHOOSE x \in self.val : TRUE
       IN  CASE self.op = "add_node" ->
                  tasks' = [ tasks EXCEPT ![t].val = GetMetrics(self.arg),
                                          ![t].pc = @ + 1 ]
             [] self.op = "select_node_for_model" ->
                  tasks' = [ tasks EXCEPT
                     ![t].nodes = supporting,
                     ![t].probed = probes,
                     ![t].val = None,
                     ![t].pc = IF supporting = << >> THEN ReturnAt(t)
                               ELSE @ + 1 ]
             [] self.op = "calculate_capability_score_for_model" ->
                  tasks' = [ tasks EXCEPT
                     ![t].nodes = GetSupportedModels(n.client),
                     ![t].probed = n.client \in HttpClients,
                     ![t].pc = IF SupportsModel(n, self.arg) THEN @ + 1
                               ELSE ReturnAt(t),
                     ![t].val = IF SupportsModel(n, self.arg) THEN @
                                ELSE None ]
    /\ UNCHANGED <<nodes, order, round_robin_index, untouched>>

\* nodes.insert(id.clone(), node)
Insert(t) ==
    /\ Statement(t) = "insert"
    /\ LET id   == tasks[t].id
           node == [ id |-> id, client |-> tasks[t].arg,
                     metrics |-> tasks[t].val, active |-> TRUE ]
       IN  /\ nodes' = [ k \in DOMAIN nodes \cup {id} |->
                           IF k = id THEN node ELSE nodes[k] ]
           /\ IF id \in DOMAIN nodes
                THEN order' = order
                ELSE order' \in Perms(DOMAIN nodes \cup {id})
    /\ tasks' = [ tasks EXCEPT ![t].val = "unit", ![t].pc = @ + 1 ]
    /\ UNCHANGED <<round_robin_index, untouched>>

\* let removed = nodes.remove(id).is_some()
Remove(t) ==
    /\ Statement(t) = "remove"
    /\ LET id == tasks[t].id
       IN  /\ nodes' = [ k \in DOMAIN nodes \ {id} |-> nodes[k] ]
           /\ IF id \in DOMAIN nodes
                THEN order' \in Perms(DOMAIN nodes \ {id})
                ELSE order' = order
           /\ tasks' = [ tasks EXCEPT ![t].val = id \in DOMAIN nodes,
                                      ![t].pc = @ + 1 ]
    /\ UNCHANGED <<round_robin_index, untouched>>

\* if let Some(node) = nodes.get_mut(id) { node.metrics = metrics; true }
\* else { false }.  The assignment copies a struct of several words: it is
\* taken in two halves, active_requests and average_response_time_ms first.
Update(t) ==
    /\ Statement(t) = "update"
    /\ LET id == tasks[t].id
       IN  /\ nodes' = IF id \in DOMAIN nodes
                         THEN [ nodes EXCEPT
                                  ![id].metrics.active_requests =
                                      tasks[t].arg.active_requests,
                                  ![id].metrics.average_response_time_ms =
                                      tasks[t].arg.average_response_time_ms ]
                         ELSE nodes
           /\ tasks' = [ tasks EXCEPT
                  ![t].val = id \in DOMAIN nodes,
                  ![t].pc = IF id \in DOMAIN nodes THEN @ + 1
                            ELSE ReturnAt(t) ]
    /\ UNCHANGED <<order, round_robin_index, untouched>>

\* The rest of node.metrics = metrics, through the reference get_mut gave.
UpdateRest(t) ==
    /\ Statement(t) = "update_rest"
    /\ LET id == tasks[t].id
       IN  nodes' = IF id \in DOMAIN nodes
                      THEN [ nodes EXCEPT ![id].metrics = tasks[t].arg ]
                      ELSE nodes
    /\ tasks' = [ tasks EXCEPT ![t].pc = @ + 1 ]
    /\ UNCHANGED <<order, round_robin_index, untouched>>

\* if let Some(node) = nodes.get_mut(id) { node.active = active; true }
SetActive(t) ==
    /\ Statement(t) = "set_active"
    /\ LET id == tasks[t].id
       IN  /\ nodes' = IF id \in DOMAIN nodes
                         THEN [ nodes EXCEPT ![id].active = tasks[t].arg ]
                         ELSE nodes
           /\ tasks' = [ tasks EXCEPT ![t].val = id \in DOMAIN nodes,
                                      ![t].pc = @ + 1 ]
    /\ UNCHANGED <<order, round_robin_index, untouched>>

\* nodes.get(id).cloned(), and nodes.get(node_id)? which returns None for
\* an id that is not there.
Get(t) ==
    /\ Statement(t) = "get"
    /\ LET id    == tasks[t].id
           found == IF id \in DOMAIN nodes THEN Some(nodes[id]) ELSE None
       IN  tasks' = [ tasks EXCEPT
              ![t].val = found,
              ![t].pc = IF found = None THEN ReturnAt(t) ELSE @ + 1 ]
    /\ UNCHANGED <<nodes, order, round_robin_index, untouched>>

\* nodes.values().cloned().collect(), with or without the filter on active
GetValues(t) ==
    /\ Statement(t) \in {"values", "active_values"}
    /\ tasks' = [ tasks EXCEPT
          ![t].nodes = IF Statement(t) = "values" THEN Values
                       ELSE GetActiveNodes,
          ![t].pc = @ + 1 ]
    /\ UNCHANGED <<nodes, order, round_robin_index, untouched>>

\* get_active_nodes returning with its read guard kept by the caller.
UnlockKeepsGuard(t) ==
    /\ Statement(t) = "unlock"
    /\ tasks' = [ tasks EXCEPT
          ![t].val = None,
          ![t].pc = IF tasks[t].nodes = << >> THEN ReturnAt(t) ELSE @ + 1 ]
    /\ UNCHANGED <<nodes, order, round_robin_index, untouched>>

\* get_active_nodes returns and its guard is dropped; select_node_for_model
\* returns None if the list is empty.
Unlock(t) ==
    /\ Statement(t) = "unlock"
    /\ tasks' = [ tasks EXCEPT
          ![t].holds = @ \ {"nodes.read"},
          ![t].val = None,
          ![t].pc = IF tasks[t].nodes = << >> THEN ReturnAt(t) ELSE @ + 1 ]
    /\ UNCHANGED <<nodes, order, round_robin_index, untouched>>

\* let selected_index = *index % nodes.len()
ReadIndex(t) ==
    /\ Statement(t) = "read_index"
    /\ tasks' = [ tasks EXCEPT
          ![t].val = round_robin_index % Len(tasks[t].nodes),
          ![t].pc = @ + 1 ]
    /\ UNCHANGED <<nodes, order, round_robin_index, untouched>>

\* *index = (*index + 1) % nodes.len(), and Some(nodes[selected_index])
WriteIndex(t) ==
    /\ Statement(t) = "write_index"
    /\ round_robin_index' = (round_robin_index + 1) % Len(tasks[t].nodes)
    /\ tasks' = [ tasks EXCEPT
          ![t].val = Some(tasks[t].nodes[tasks[t].val + 1]),
          ![t].pc = @ + 1 ]
    /\ UNCHANGED <<nodes, order, untouched>>

\* select_least_loaded and select_latency_based
Pick(t) ==
    /\ Statement(t) = "pick"
    /\ tasks' = [ tasks EXCEPT
          ![t].val = IF strategy = "LeastLoaded"
                       THEN Some(SelectLeastLoaded(tasks[t].nodes))
                       ELSE Some(SelectLatencyBased(tasks[t].nodes)),
          ![t].pc = @ + 1 ]
    /\ UNCHANGED <<nodes, order, round_robin_index, untouched>>

\* select_capability_based, which calls get_supported_models of every
\* candidate again.
ScoreAll(t) ==
    /\ Statement(t) = "score_all"
    /\ tasks' = [ tasks EXCEPT
          ![t].val = SelectCapabilityBased(tasks[t].nodes, tasks[t].id),
          ![t].pc = @ + 1 ]
    /\ UNCHANGED <<nodes, order, round_robin_index, untouched>>

\* calculate_capability_score(n, model_info) as f64
Score(t) ==
    /\ Statement(t) = "score"
    /\ LET n                == CHOOSE x \in tasks[t].val : TRUE
           supported_models == tasks[t].nodes
           model_info       ==
               supported_models[FindModel(supported_models, tasks[t].arg, 1)]
       IN  tasks' = [ tasks EXCEPT
              ![t].val = Some(CalculateCapabilityScore(n, model_info)),
              ![t].pc = @ + 1 ]
    /\ UNCHANGED <<nodes, order, round_robin_index, untouched>>

\* The call returns: the guards it holds are dropped.
Return(t) ==
    /\ Statement(t) = "return"
    /\ tasks' = [ tasks EXCEPT ![t].holds = {}, ![t].pc = @ + 1 ]
    /\ UNCHANGED <<nodes, order, round_robin_index, untouched>>

\* The caller has taken the value returned.
Finish(t) ==
    /\ HasReturned(t)
    /\ tasks' = [ tasks EXCEPT ![t] = Idle ]
    /\ UNCHANGED <<nodes, order, round_robin_index, untouched>>

\* The id the concurrent callers use.
LockIds == {"A"}

Call(op, id, arg) == [ op |-> op, id |-> id, arg |-> arg ]

\* The calls of the registry's operations the callers make; a selection's
\* id is the model it asks for.
LockCalls ==
    { Call("add_node", id, c) : id \in LockIds, c \in {"local", "ollama"} }
    \cup { Call("remove_node", id, "") : id \in LockIds }
    \cup { Call("update_node_metrics", id, HeavyMetrics) : id \in LockIds }
    \cup { Call("set_node_active", id, b) : id \in LockIds, b \in BOOLEAN }
    \cup { Call("get_node", id, "") : id \in LockIds }
    \cup { Call("get_all_nodes", "", "") }
    \cup { Call("select_node_for_model", "x", "") }
    \cup { Call("calculate_capability_score_for_model", id, "x") :
             id \in LockIds }

\* A step of the call a task runs.
TaskStep(t) ==
    \/ Acquire(t)
    \/ ClientCall(t)
    \/ Insert(t)
    \/ Remove(t)
    \/ Update(t)
    \/ UpdateRest(t)
    \/ SetActive(t)
    \/ Get(t)
    \/ GetValues(t)
    \/ Unlock(t)
    \/ ReadIndex(t)
    \/ WriteIndex(t)
    \/ Pick(t)
    \/ ScoreAll(t)
    \/ Score(t)
    \/ Return(t)
    \/ Finish(t)

NextLocks ==
    \/ \E t \in TaskIds, c \in LockCalls : StartCall(t, c)
    \/ \E t \in TaskIds : TaskStep(t)

SpecLocks == Init /\ [][NextLocks]_vars

\* The guards of the lock of LoadBalancer.nodes.
NodesGuards == {"nodes.read", "nodes.write"}

----------------------------------------------------------------------------
(* Concurrent mutations and reads of the node map *)

\* The node map the concurrent calls start from: add_node("A", the local
\* client) has returned.
SerialBase ==
    [ id \in {"A"} |->
        [ id |-> "A", client |-> "local", metrics |-> ZeroMetrics,
          active |-> TRUE ] ]

\* The calls that run concurrently, one per task.
SerialCalls ==
    { c \in LockCalls :
        c.op \in {"add_node", "remove_node", "update_node_metrics",
                  "set_node_active", "get_node", "get_all_nodes"} }

SerialStep(t) ==
    \/ Acquire(t)
    \/ ClientCall(t)
    \/ Insert(t)
    \/ Remove(t)
    \/ Update(t)
    \/ UpdateRest(t)
    \/ SetActive(t)
    \/ Get(t)
    \/ GetValues(t)
    \/ Return(t)

NextSerial ==
    \/ \E t \in TaskIds, c \in SerialCalls : StartCall(t, c)
    \/ \E t \in TaskIds : SerialStep(t)

InitSerial ==
    /\ strategy = "RoundRobin"
    /\ nodes = SerialBase
    /\ order = << "A" >>
    /\ round_robin_index = 0
    /\ clientMetrics = [ c \in Clients |->
                           IF c = "mock" THEN MockMetrics ELSE ZeroMetrics ]
    /\ backendUp = TRUE
    /\ call = Called("add_node", FALSE)
    /\ ret = "unit"
    /\ rrTrace = [ model |-> "", picks |-> << >> ]
    /\ history = << >>
    /\ deactivated = {}
    /\ reactivated = "none"
    /\ consumed = << >>
    /\ collector = [ kind |-> "none", pc |-> "idle", choices |-> << >>,
                     result |-> NoResult ]
    /\ inflight = {}
    /\ reply = Reply("none", "none", "", FALSE, "none", << >>)
    /\ tasks = [ t \in TaskIds |-> Idle ]
    /\ config = NoConfig

SpecSerial == InitSerial /\ [][NextSerial]_vars

\* An operation run alone on the node map ns: the map it leaves and the
\* value it returns (get_all_nodes: the nodes it returns, in any order).
Alone(ns, c) ==
    CASE c.op = "add_node" ->
           [ nodes |-> [ k \in DOMAIN ns \cup {c.id} |->
                           IF k = c.id
                             THEN [ id |-> c.id, client |-> c.arg,
                                    metrics |-> GetMetrics(c.arg),
                                    active |-> TRUE ]
                             ELSE ns[k] ],
             val |-> "unit" ]
      [] c.op = "remove_node" ->
           [ nodes |-> [ k \in DOMAIN ns \ {c.id} |-> ns[k] ],
             val |-> c.id \in DOMAIN ns ]
      [] c.op = "update_node_metrics" ->
           [ nodes |-> IF c.id \in DOMAIN ns
                         THEN [ ns EXCEPT ![c.id].metrics = c.arg ]
                         ELSE ns,
             val |-> c.id \in DOMAIN ns ]
      [] c.op = "set_node_active" ->
           [ nodes |-> IF c.id \in DOMAIN ns
                         THEN [ ns EXCEPT ![c.id].active = c.arg ]
                         ELSE ns,
             val |-> c.id \in DOMAIN ns ]
      [] c.op = "get_node" ->
           [ nodes |-> ns,
             val |-> IF c.id \in DOMAIN ns THEN Some(ns[c.id]) ELSE None ]
      [] c.op = "get_all_nodes" ->
           [ nodes |-> ns, val |-> { ns[k] : k \in DOMAIN ns } ]

\* The call a task runs, and what it returned.
CallOf(t) == Call(tasks[t].op, tasks[t].id, tasks[t].arg)

Result(t) ==
    IF tasks[t].op = "get_all_nodes"
      THEN { tasks[t].nodes[i] : i \in DOMAIN tasks[t].nodes }
      ELSE tasks[t].val

\* The calls of the tasks run one after the other in the order p, from the
\* i-th on, on the node map ns: whether every call returns what its task
\* returned and the map left in the end is the registry's.
RECURSIVE InOrder(_, _, _)
InOrder(p, i, ns) ==
    IF i > Len(p) THEN ns = nodes
    ELSE /\ Alone(ns, CallOf(p[i])).val = Result(p[i])
         /\ InOrder(p, i + 1, Alone(ns, CallOf(p[i])).nodes)

\* C23: when concurrent add_node, remove_node, update_node_metrics,
\* set_node_active, get_node and get_all_nodes calls have all returned, the
\* node map and every value returned are those of the same calls run one
\* after the other in some order.
C23_Linearizable ==
    (\A t \in TaskIds : HasReturned(t)) =>
       \E p \in Perms(TaskIds) : InOrder(p, 1, SerialBase)

\* set_node_active("A", FALSE) and update_node_metrics("A", m) have run
\* concurrently and the node has both active = FALSE and metrics = m.
C23_Witness ==
    /\ \A t \in TaskIds : HasReturned(t)
    /\ \E t \in TaskIds : CallOf(t) = Call("set_node_active", "A", FALSE)
    /\ \E t \in TaskIds :
          CallOf(t) = Call("update_node_metrics", "A", HeavyMetrics)
    /\ "A" \in DOMAIN nodes
    /\ ~nodes["A"].active
    /\ nodes["A"].metrics = HeavyMetrics

----------------------------------------------------------------------------
(* BlueprintConfig: file, environment and their merge *)

MaxEnv == 2

\* The fields load merges, each with its type, the environment variable
\* from_env reads for it, and its default (the default_* functions).
Overridable ==
    ( "llm.api_url" :>
        [ kind |-> "String", var |-> "OPENROUTER_LLM_API_URL",
          default |-> "http://localhost:8000" ] ) @@
    ( "llm.timeout_seconds" :>
        [ kind |-> "u64", var |-> "OPENROUTER_LLM_TIMEOUT", default |-> 60 ] ) @@
    ( "llm.max_concurrent_requests" :>
        [ kind |-> "usize", var |-> "OPENROUTER_LLM_MAX_CONCURRENT",
          default |-> 5 ] ) @@
    ( "load_balancer.strategy" :>
        [ kind |-> "LoadBalancingStrategy",
          var |-> "OPENROUTER_LOAD_BALANCER_STRATEGY",
          default |-> "RoundRobin" ] ) @@
    ( "load_balancer.max_retries" :>
        [ kind |-> "usize", var |-> "OPENROUTER_LOAD_BALANCER_MAX_RETRIES",
          default |-> 3 ] ) @@
    ( "load_balancer.selection_timeout_ms" :>
        [ kind |-> "u64", var |-> "OPENROUTER_LOAD_BALANCER_TIMEOUT",
          default |-> 1000 ] ) @@
    ( "api.enabled" :>
        [ kind |-> "bool", var |-> "OPENROUTER_API_ENABLED",
          default |-> TRUE ] ) @@
    ( "api.host" :>
        [ kind |-> "String", var |-> "OPENROUTER_API_HOST",
          default |-> "0.0.0.0" ] ) @@
    ( "api.port" :>
        [ kind |-> "u16", var |-> "OPENROUTER_API_PORT", default |-> 3000 ] ) @@
    ( "api.auth_enabled" :>
        [ kind |-> "bool", var |-> "OPENROUTER_API_AUTH_ENABLED",
          default |-> FALSE ] ) @@
    ( "api.rate_limiting_enabled" :>
        [ kind |-> "bool", var |-> "OPENROUTER_API_RATE_LIMITING_ENABLED",
          default |-> TRUE ] ) @@
    ( "api.max_requests_per_minute" :>
        [ kind |-> "u32", var |-> "OPENROUTER_API_MAX_REQUESTS",
          default |-> 60 ] ) @@
    ( "api.metrics_interval_seconds" :>
        [ kind |-> "u64", var |-> "OPENROUTER_API_METRICS_INTERVAL",
          default |-> 60 ] )

Fields == DOMAIN Overridable

\* BlueprintConfig::default(), field by field.
DefaultConfig == [ f \in Fields |-> Overridable[f].default ]

\* The decimal numerals among the texts, with their values.
Numerals ==
    ( "3" :> 3 ) @@ ( "5" :> 5 ) @@ ( "7" :> 7 ) @@ ( "60" :> 60 ) @@
    ( "90" :> 90 ) @@ ( "1000" :> 1000 ) @@ ( "3000" :> 3000 ) @@
    ( "9999" :> 9999 ) @@ ( "70000" :> 70000 )

\* str::to_lowercase on the strategy names tried.
ToLowercase(text) ==
    CASE text = "LATENCY_BASED" -> "latency_based"
      [] text = "Round_Robin" -> "round_robin"
      [] OTHER -> text

\* What from_env makes of a variable's text for a field of a type: the value,
\* or nothing when the text does not parse (the field keeps its default).
Parse(kind, text) ==
    CASE kind = "String" -> Some(text)
      [] kind = "bool" ->
           CASE text = "true" -> Some(TRUE)
             [] text = "false" -> Some(FALSE)
             [] OTHER -> None
      [] kind = "LoadBalancingStrategy" ->
           ( CASE ToLowercase(text) = "round_robin" -> Some("RoundRobin")
               [] ToLowercase(text) = "least_loaded" -> Some("LeastLoaded")
               [] ToLowercase(text) = "capability_based" ->
                    Some("CapabilityBased")
               [] ToLowercase(text) = "latency_based" -> Some("LatencyBased")
               [] OTHER -> None )
      [] OTHER ->
           IF /\ text \in DOMAIN Numerals
              /\ kind = "u16" => Numerals[text] < 65536
             THEN Some(Numerals[text])
             ELSE None

\* The texts an environment variable is set to, by the type of its field.
EnvTexts(f) ==
    CASE Overridable[f].kind = "String" ->
           { Overridable[f].default, "http://override-api.com" }
      [] Overridable[f].kind = "bool" -> { "true", "false", "yes" }
      [] Overridable[f].kind = "LoadBalancingStrategy" ->
           { "Round_Robin", "least_loaded", "LATENCY_BASED", "fastest" }
      [] Overridable[f].kind = "u16" -> { "3000", "9999", "70000", "abc" }
      [] Overridable[f].kind = "usize" -> { "3", "5", "7", "abc" }
      [] OTHER -> { "60", "1000", "90", "abc" }

\* The values a configuration file gives a field.
FileValues(f) ==
    { Unwrap(Parse(Overridable[f].kind, text)) :
        text \in { x \in EnvTexts(f) : Parse(Overridable[f].kind, x) # None } }

\* from_env: the default configuration, with every field whose variable is
\* set to a text that parses replaced by the parsed value.
FromEnv(env) ==
    [ f \in Fields |->
        IF Overridable[f].var \in DOMAIN env
           /\ Parse(Overridable[f].kind, env[Overridable[f].var]) # None
          THEN Unwrap(Parse(Overridable[f].kind, env[Overridable[f].var]))
          ELSE DefaultConfig[f] ]

\* load: the file's configuration, with every field of from_env()'s result
\* that differs from the default written over it.
Load(file, env) ==
    [ f \in Fields |->
        IF FromEnv(env)[f] # DefaultConfig[f] THEN FromEnv(env)[f]
        ELSE file[f] ]

\* std::env::set_var
SetVar(f, text) ==
    /\ Cardinality(DOMAIN config.env \cup {Overridable[f].var}) <= MaxEnv
    /\ config' = [ config EXCEPT
          !.env = [ v \in DOMAIN @ \cup {Overridable[f].var} |->
                      IF v = Overridable[f].var THEN text ELSE @[v] ],
          !.loaded = {} ]
    /\ UNCHANGED <<registry, observers, consumed, collector, inflight, reply,
                   tasks>>

\* std::env::remove_var
RemoveVar(f) ==
    /\ Overridable[f].var \in DOMAIN config.env
    /\ config' = [ config EXCEPT
          !.env = [ v \in DOMAIN @ \ {Overridable[f].var} |-> @[v] ],
          !.loaded = {} ]
    /\ UNCHANGED <<registry, observers, consumed, collector, inflight, reply,
                   tasks>>

\* A configuration file is written that gives the field f the value v and
\* leaves the other fields out (serde fills them with their defaults).
WriteFile(f, v) ==
    /\ config' = [ config EXCEPT !.file = [ DefaultConfig EXCEPT ![f] = v ],
                                 !.loaded = {} ]
    /\ UNCHANGED <<registry, observers, consumed, collector, inflight, reply,
                   tasks>>

\* BlueprintConfig::load(path)
LoadConfig ==
    /\ config.loaded = {}
    /\ config' = [ config EXCEPT !.loaded = { Load(config.file, config.env) } ]
    /\ UNCHANGED <<registry, observers, consumed, collector, inflight, reply,
                   tasks>>

NextConfig ==
    \/ \E f \in Fields : \E text \in EnvTexts(f) : SetVar(f, text)
    \/ \E f \in Fields : RemoveVar(f)
    \/ \E f \in Fields : \E v \in FileValues(f) : WriteFile(f, v)
    \/ LoadConfig

InitConfig ==
    /\ strategy = "RoundRobin"
    /\ nodes = << >>
    /\ order = << >>
    /\ round_robin_index = 0
    /\ clientMetrics = [ c \in Clients |->
                           IF c = "mock" THEN MockMetrics ELSE ZeroMetrics ]
    /\ backendUp = TRUE
    /\ call = Called("add_node", FALSE)
    /\ ret = "unit"
    /\ rrTrace = [ model |-> "", picks |-> << >> ]
    /\ history = << >>
    /\ deactivated = {}
    /\ reactivated = "none"
    /\ consumed = << >>
    /\ collector = [ kind |-> "none", pc |-> "idle", choices |-> << >>,
                     result |-> NoResult ]
    /\ inflight = {}
    /\ reply = Reply("none", "none", "", FALSE, "none", << >>)
    /\ tasks = [ t \in TaskIds |-> Idle ]
    /\ config = [ file |-> DefaultConfig, env |-> << >>, loaded |-> {} ]

SpecConfig == InitConfig /\ [][NextConfig]_vars

\* The environment variable of the field f is set to a text that parses.
ValidlySet(f) ==
    /\ Overridable[f].var \in DOMAIN config.env
    /\ Parse(Overridable[f].kind, config.env[Overridable[f].var]) # None

EnvValue(f) == Unwrap(Parse(Overridable[f].kind, config.env[Overridable[f].var]))

\* C24: the configuration load returns carries, for every overridable
\* field, the value of its environment variable when that is set to a valid
\* value, and the file's value otherwise.
C24_EnvironmentTakesPrecedence ==
    \A loaded \in config.loaded : \A f \in Fields :
        loaded[f] = IF ValidlySet(f) THEN EnvValue(f) ELSE config.file[f]

\* What load does: a variable validly set to a value other than the field's
\* default overrides the file; a variable that is unset, does not parse, or
\* is set to the default leaves the file's value.
C24_NonDefaultEnvironmentTakesPrecedence ==
    \A loaded \in config.loaded : \A f \in Fields :
        loaded[f] = IF ValidlySet(f) /\ EnvValue(f) # DefaultConfig[f]
                      THEN EnvValue(f)
                      ELSE config.file[f]

\* The file gives port 9999, OPENROUTER_API_PORT is "3000", and load has
\* returned a configuration.
C24_Witness ==
    /\ config.loaded # {}
    /\ config.file["api.port"] = 9999
    /\ ValidlySet("api.port")
    /\ EnvValue("api.port") = 3000

----------------------------------------------------------------------------
(* One round-robin cursor for all models *)

MaxHistory == 4

\* select_node_for_model under RoundRobin, with the selection noted when it
\* returns a node: the model, the node and the number of candidates.
SelectShared(model) ==
    /\ Len(history) < MaxHistory
    /\ SelectNodeForModel(model)
    /\ history' = IF SelectNode(model).node = {} THEN history
                  ELSE Append(history,
                              [ model |-> model, node |-> ret',
                                n |-> Len(SupportingNodes(model)) ])
    /\ UNCHANGED <<rrTrace, deactivated, reactivated, outside>>

\* The pool is put together before the first selection and left alone after.
NextShared ==
    \/ \E in \in AddInputs :
          /\ history = << >>
          /\ AddNode(in[1], in[2])
          /\ UNCHANGED frame
    \/ \E id \in NodeIds :
          /\ history = << >>
          /\ RemoveNode(id)
          /\ UNCHANGED frame
    \/ \E model \in ModelIds : SelectShared(model)

SpecShared == InitRR /\ [][NextShared]_vars

\* The place (from 0) of the node of the i-th selection in the candidate list
\* of its call.
Place(i) ==
    LET c == SupportingNodes(history[i].model)
    IN  (CHOOSE k \in 1..Len(c) : c[k].id = history[i].node) - 1

\* C25: every RoundRobin selection returns candidates[c % len], where c is
\* the number of earlier RoundRobin selections and len the number of
\* candidates of the call, also when len differs between calls.
C25_CursorIsSelectionCount ==
    \A i \in DOMAIN history : Place(i) = (i - 1) % history[i].n

\* What the stored, reduced cursor gives: the count of earlier selections
\* modulo len as long as every earlier call had the same number of
\* candidates as this one.
C25_CursorIsSelectionCountForOneLength ==
    \A i \in DOMAIN history :
        (\A j \in 1..(i - 1) : history[j].n = history[i].n)
          => Place(i) = (i - 1) % history[i].n

\* Three selections and more, each among two candidates.
C25_Witness ==
    /\ Len(history) >= 3
    /\ \A i \in DOMAIN history : history[i].n = 2

\* The nodes returned for the model, in the order of the calls.
PicksFor(model) ==
    LET RECURSIVE From(_)
        From(i) == IF i > Len(history) THEN << >>
                   ELSE IF history[i].model = model
                          THEN << history[i].node >> \o From(i + 1)
                          ELSE From(i + 1)
    IN  From(1)

----------------------------------------------------------------------------
(* Concurrent round-robin selections *)

\* A pool of three nodes with local clients, which all serve model "x".
AtomicPool ==
    [ id \in NodeIds |->
        [ id |-> id, client |-> "local", metrics |-> ZeroMetrics,
          active |-> TRUE ] ]

AtomicStep(t) ==
    \/ Acquire(t)
    \/ GetValues(t)
    \/ Unlock(t)
    \/ ClientCall(t)
    \/ ReadIndex(t)
    \/ WriteIndex(t)
    \/ Return(t)

\* Every task calls select_node_for_model("x") at most once.
NextAtomic ==
    \/ \E t \in TaskIds : StartCall(t, Call("select_node_for_model", "x", ""))
    \/ \E t \in TaskIds : AtomicStep(t)

InitAtomic ==
    /\ strategy = "RoundRobin"
    /\ nodes = AtomicPool
    /\ order \in Perms(NodeIds)
    /\ round_robin_index \in 0..(Cardinality(NodeIds) - 1)
    /\ clientMetrics = [ c \in Clients |->
                           IF c = "mock" THEN MockMetrics ELSE ZeroMetrics ]
    /\ backendUp = TRUE
    /\ call = Called("add_node", FALSE)
    /\ ret = "unit"
    /\ rrTrace = [ model |-> "", picks |-> << >> ]
    /\ history = << >>
    /\ deactivated = {}
    /\ reactivated = "none"
    /\ consumed = << >>
    /\ collector = [ kind |-> "none", pc |-> "idle", choices |-> << >>,
                     result |-> NoResult ]
    /\ inflight = {}
    /\ reply = Reply("none", "none", "", FALSE, "none", << >>)
    /\ tasks = [ t \in TaskIds |-> Idle ]
    /\ config = NoConfig

SpecAtomic == InitAtomic /\ [][NextAtomic]_vars

\* The tasks that have called select_node_for_model.
Callers == { t \in TaskIds : tasks[t].op # "idle" }

\* C27: when k concurrent select_node_for_model calls for one model under
\* RoundRobin, on an unchanged pool of n >= k qualifying nodes, have all
\* returned, they have returned k pairwise different nodes, the candidates
\* at k consecutive cursor values, and the cursor stands k (modulo n) after
\* the first of these values.
C27_ReadAndAdvanceIsAtomic ==
    LET c == SupportingNodes("x")
        n == Len(c)
        k == Cardinality(Callers)
    IN  (k <= n /\ \A t \in Callers : HasReturned(t)) =>
           /\ \A t, u \in Callers : t # u => tasks[t].val # tasks[u].val
           /\ \E start \in 0..(n - 1) :
                 /\ { tasks[t].val : t \in Callers }
                      = { Some(c[((start + i) % n) + 1]) : i \in 0..(k - 1) }
                 /\ round_robin_index = (start + k) % n

\* Every task has called and returned, each with another node.
C27_Witness ==
    /\ Callers = TaskIds
    /\ \A t \in TaskIds : HasReturned(t)
    /\ Cardinality({ tasks[t].val : t \in TaskIds }) = Cardinality(TaskIds)

----------------------------------------------------------------------------
(* Ties, and what a selection reads *)

\* What the strategy minimizes over the candidates: active_requests, the
\* response time, or (for CapabilityBased, which maximizes) minus the score.
KeyOf(id, model) ==
    CASE strategy = "LeastLoaded" -> nodes[id].metrics.active_requests
      [] strategy = "LatencyBased" ->
           nodes[id].metrics.average_response_time_ms
      [] strategy = "CapabilityBased" -> 0 - ClaimScore(id, model)

\* C28: under LeastLoaded, LatencyBased and CapabilityBased the node a
\* selection returns has the best key of the candidates, every candidate
\* before it in the candidate list of the call has a strictly worse key, and
\* the selection changes nothing a selection reads (the nodes, their
\* order, the clients' model lists, the strategy), so that the same
\* selection made again returns the same node.
C28_TiesGoToTheFirst ==
    [][ \A model \in ModelIds :
          ( /\ strategy \in {"LeastLoaded", "LatencyBased", "CapabilityBased"}
            /\ Qualifying(model) # {}
            /\ SelectNodeForModel(model) )
          => LET c == SupportingNodes(model)
                 p == CHOOSE i \in DOMAIN c : c[i].id = ret'
             IN  /\ \A i \in DOMAIN c :
                       KeyOf(c[i].id, model) >= KeyOf(ret', model)
                 /\ \A i \in 1..(p - 1) :
                       KeyOf(c[i].id, model) > KeyOf(ret', model)
                 /\ UNCHANGED <<strategy, nodes, order, round_robin_index,
                                clientMetrics, backendUp>> ]_vars

\* A and C hold the mock client with the same metrics, no node serves "y",
\* and a LeastLoaded selection returned the one that comes first.
C28_Witness ==
    /\ strategy = "LeastLoaded"
    /\ call = Called("select_node_for_model", TRUE)
    /\ Qualifying("x") = {"A", "C"}
    /\ Qualifying("y") = {}
    /\ nodes["A"].metrics = nodes["C"].metrics
    /\ ret = GetActiveNodes[1].id

\* Nodes are added, snapshots stored, the local client's own metrics move
\* and selections are made.
NextCache ==
    \/ \E in \in AddInputs : AddNode(in[1], in[2]) /\ UNCHANGED frame
    \/ \E id \in NodeIds :
          UpdateNodeMetrics(id, HeavyMetrics) /\ UNCHANGED frame
    \/ \E model \in ModelIds :
          SelectNodeForModel(model) /\ UNCHANGED frame
    \/ LocalUpdateMetrics(9, 3) /\ UNCHANGED frame

SpecCache == Init /\ [][NextCache]_vars

\* C29: under LeastLoaded, LatencyBased and CapabilityBased a selection is
\* decided by the metrics stored in the registry: a step that changes a
\* client's own metrics and stores nothing in the registry leaves, for every
\* model, the node a selection returns as it was.
C29_SelectionReadsTheCacheOnly ==
    [][ ( /\ strategy \in {"LeastLoaded", "LatencyBased", "CapabilityBased"}
          /\ clientMetrics' # clientMetrics
          /\ nodes' = nodes )
        => \A model \in ModelIds : SelectNode(model)' = SelectNode(model) ]_vars

\* The local client's own metrics have moved away from the snapshot stored
\* for node B, which holds that client, another node serves "x" too, and a
\* CapabilityBased selection has returned B.
C29_Witness ==
    /\ strategy = "CapabilityBased"
    /\ call = Called("select_node_for_model", TRUE)
    /\ ret = "B"
    /\ {"A", "B"} \subseteq Qualifying("x")
    /\ nodes["B"].client = "local"
    /\ nodes["B"].metrics = ZeroMetrics
    /\ clientMetrics["local"] # ZeroMetrics

----------------------------------------------------------------------------
(* What a selection asks of the backends *)

\* C30: no call of select_node_for_model probes a backend server: the model
\* lists it reads are cached, for every kind of client.
C30_SelectionNeverProbes ==
    \A t \in TaskIds :
       tasks[t].op = "select_node_for_model" => ~tasks[t].probed

\* What select_node_for_model does: it probes exactly when one of the active
\* nodes holds a vLLM or an Ollama client, whose get_supported_models asks
\* the server, and it holds no guard of the node map while it does.
C30_SelectionProbesHttpClientsOnly ==
    [][ \A t \in TaskIds :
          ( /\ tasks[t].op = "select_node_for_model"
            /\ Statement(t) = "get_supported_models"
            /\ tasks'[t].pc # tasks[t].pc )
          => /\ tasks'[t].probed =
                   \E i \in DOMAIN tasks[t].nodes :
                      tasks[t].nodes[i].client \in HttpClients
             /\ tasks[t].holds \cap NodesGuards = {} ]_vars

\* A call of select_node_for_model has asked an Ollama server for its models.
C30_Witness ==
    \E t \in TaskIds :
       /\ tasks[t].op = "select_node_for_model"
       /\ tasks[t].probed
       /\ "A" \in DOMAIN nodes
       /\ nodes["A"].client = "ollama"

----------------------------------------------------------------------------
(* Requests served through the registry *)

\* The nodes added through add_llm_node: the context's own client under
\* "default" and under a second id, and other clients under "default" and
\* under an id of their own.
ServedInputs ==
    { <<DefaultId, "local">>, <<DefaultId, "ollama">>, <<"B", "local">>,
      <<"C", "vllm">> }

ServedIds == { in[1] : in \in ServedInputs }

\* A request that is answered by its server, served in 10 ms.
Served(op, model, stream) == ProcessLlmRequest(op, model, stream, "ok", 10)

NextServed ==
    \/ \E op \in Ops, model \in ModelIds, stream \in BOOLEAN :
          Served(op, model, stream)
    \/ \E in \in ServedInputs : AddNode(in[1], in[2]) /\ UNCHANGED frame
    \/ \E id \in ServedIds : RemoveNode(id) /\ UNCHANGED frame
    \/ \E b \in BOOLEAN : SetNodeActive(DefaultId, b) /\ UNCHANGED frame

InitServed == InitDispatch /\ backendUp

SpecServed == InitServed /\ [][NextServed]_vars

\* The id of the node a selection for the model returns, if it returns one.
SelectedId(model) == { n.id : n \in SelectNode(model).node }

\* C31: after process_llm_request has been served by the node selection
\* returned, the registry's metrics for that node are the current metrics of
\* the node's client, whatever the node's id.
C31_ServingNodeRefreshed ==
    [][ \A op \in Ops, model \in ModelIds, stream \in BOOLEAN :
          (Served(op, model, stream) /\ ret' = "Ok") =>
             \A id \in SelectedId(model) :
                nodes'[id].metrics = clientMetrics'[nodes'[id].client] ]_vars

\* What update_metrics does after a served request: the node "default" gets
\* the current metrics of the context's own client, and the metrics of
\* every other node stay as they were.
C31_OnlyDefaultRefreshed ==
    [][ \A op \in Ops, model \in ModelIds, stream \in BOOLEAN :
          (Served(op, model, stream) /\ ret' = "Ok") =>
             \A id \in DOMAIN nodes' :
                nodes'[id].metrics = IF id = DefaultId
                                       THEN clientMetrics'["local"]
                                       ELSE nodes[id].metrics ]_vars

\* A request was served by node B, which holds the context's client, and
\* the registry's metrics of B are not that client's.
C31_Witness ==
    /\ call = Called("process_llm_request", TRUE)
    /\ ret = "Ok"
    /\ DOMAIN nodes = {"B"}
    /\ nodes["B"].metrics # clientMetrics[nodes["B"].client]

\* C32: when selection returns no node for the model of a request,
\* process_llm_request runs the request on the context's own client,
\* whatever the registry holds under "default": the request succeeds
\* unless that client returns an error, and it returns that client's answer.
C32_FallsBackToDefaultClient ==
    [][ \A op \in Ops, model \in ModelIds, stream \in BOOLEAN :
          (Served(op, model, stream) /\ SelectedId(model) = {}) =>
             /\ ret' = IF model \in ModelsOf(GetSupportedModels("local"))
                         THEN "Ok" ELSE "ModelNotSupported"
             /\ ret' = "Ok" =>
                   clientMetrics'["local"].average_response_time_ms
                     = (9 * clientMetrics["local"].average_response_time_ms
                          + 10) \div 10
             /\ \A c \in Clients \ {"local"} :
                   clientMetrics'[c] = clientMetrics[c] ]_vars

\* "default" holds an Ollama client and is inactive, no node was found
\* and the request succeeded.
C32_Witness ==
    /\ call = Called("process_llm_request", FALSE)
    /\ ret = "Ok"
    /\ DefaultId \in DOMAIN nodes
    /\ nodes[DefaultId].client = "ollama"
    /\ ~nodes[DefaultId].active

\* C33: as_streaming gives no streaming client for any client, so that
\* process_llm_request with stream = true calls the plain chat_completion
\* or text_completion of the client and starts no stream collector.
C33_StreamingAlwaysFallsBack ==
    [][ \A op \in Ops, model \in ModelIds :
          Served(op, model, TRUE) =>
             /\ AsStreaming(ServingClient(SelectNode(model).node)) = None
             /\ ret' = BackendCall(ServingClient(SelectNode(model).node),
                                   op, model, "ok")
             /\ UNCHANGED <<consumed, collector>> ]_vars

\* A request was served by the only node, which holds a vLLM client, whose
\* capabilities say it streams, and no collector has run.
C33_Witness ==
    /\ call = Called("process_llm_request", TRUE)
    /\ ret = "Ok"
    /\ DOMAIN nodes = {"C"}
    /\ SupportsStreaming(nodes["C"].client)
    /\ collector.kind = "none"

----------------------------------------------------------------------------
(* The clients' own record of their calls *)

\* A step in which a chat_completion or text_completion call of a client
\* returns Ok.
Completes ==
    /\ reply' # reply
    /\ reply'.result = "Ok"
    /\ reply'.op \in {"chat_completion", "text_completion"}

\* The call that completes was counted in the metrics of client c and is
\* counted out, and its duration enters the average response time.
Recorded(c) ==
    /\ clientMetrics[c].active_requests >= 1
    /\ clientMetrics'[c].active_requests =
           clientMetrics[c].active_requests - 1
    /\ \E d \in Durations :
          clientMetrics'[c].average_response_time_ms =
              (9 * clientMetrics[c].average_response_time_ms + d) \div 10

\* C34: for every client variant (local, vLLM, Ollama), every completed
\* chat_completion or text_completion call updates the client's metrics:
\* active_requests was incremented at its start and is decremented at its
\* end, and the latency statistics of a later get_metrics reflect the call.
C34_EveryClientRecordsItsCalls ==
    [][ Completes => Recorded(reply'.client) ]_vars

\* C34, as far as the code goes: a completed call of the local client is
\* recorded, and a completed call of the vLLM or the Ollama client leaves
\* the client's metrics at the zeros they were constructed with.
C34_OnlyLocalRecordsItsCalls ==
    [][ Completes =>
          IF reply'.client = "local"
            THEN Recorded("local")
            ELSE /\ clientMetrics[reply'.client] = ZeroMetrics
                 /\ clientMetrics'[reply'.client] = ZeroMetrics ]_vars

\* A chat completion of an HTTP client has returned Ok, and get_metrics of
\* that client still answers all zeros.
C34_Witness ==
    /\ reply.client \in HttpClients
    /\ reply.op = "chat_completion"
    /\ reply.result = "Ok"
    /\ GetMetrics(reply.client) = ZeroMetrics

----------------------------------------------------------------------------
(* Selection over metrics nobody checked *)

\* The registry filled by callers that push what they measured, a NaN
\* utilization included, and asked for nodes.
NextUnchecked ==
    \/ \E in \in AddInputs : AddNode(in[1], in[2]) /\ UNCHANGED frame
    \/ \E id \in NodeIds, m \in UncheckedSamples :
          UpdateNodeMetrics(id, m) /\ UNCHANGED frame
    \/ \E model \in ModelIds :
          SelectNodeForModel(model) /\ UNCHANGED frame

SpecUnchecked == Init /\ [][NextUnchecked]_vars

\* C35: select_node_for_model never panics or aborts: for every strategy
\* and every registry state reachable through add_node and
\* update_node_metrics, which store whatever metrics they are given, it
\* returns either a node or no node.
C35_SelectNeverPanics ==
    call.op = "select_node_for_model" => ret \in DOMAIN nodes \cup {"none"}

\* C35, as far as the code goes: a selection returns a stored node or none
\* under RoundRobin, LeastLoaded and LatencyBased whatever the metrics, and
\* under CapabilityBased unless two or more nodes are scored for the model
\* and one of them stores a NaN utilization.
C35_PanicsOnlyOnUnorderedScores ==
    call.op = "select_node_for_model" =>
       IF ret = "panic"
         THEN /\ strategy = "CapabilityBased"
              /\ Cardinality({ id \in DOMAIN nodes : nodes[id].active }) >= 2
              /\ \E id \in DOMAIN nodes :
                    nodes[id].active /\ ScoreIsNaN(nodes[id])
         ELSE ret \in DOMAIN nodes \cup {"none"}

\* A selection has panicked.
C35_Witness ==
    /\ call.op = "select_node_for_model"
    /\ ret = "panic"

----------------------------------------------------------------------------
(* A selection decides on its copy of the active nodes *)

\* The call of task t is a selection that has copied the active nodes.
SnapshotTaken(t) ==
    /\ tasks[t].op = "select_node_for_model"
    /\ tasks[t].pc > 2
    /\ tasks[t].pc <= ReturnAt(t) + 1

\* C36: select_node_for_model is snapshot-then-decide.  The copy it takes
\* under the read guard holds stored, active nodes with the metrics stored
\* at that moment; from then on the call only narrows its copy and returns
\* a node of it or none; and a step that changes the node map after the
\* copy was taken (remove_node, set_node_active, update_node_metrics of
\* another caller) changes neither the copy nor the result.
C36_SelectionDecidesOnItsSnapshot ==
    [][ \A t \in TaskIds :
          /\ ( /\ tasks[t].op = "select_node_for_model"
               /\ Statement(t) = "active_values"
               /\ tasks'[t] # tasks[t] )
               => \A i \in DOMAIN tasks'[t].nodes :
                     /\ tasks'[t].nodes[i].id \in DOMAIN nodes
                     /\ nodes[tasks'[t].nodes[i].id] = tasks'[t].nodes[i]
                     /\ tasks'[t].nodes[i].active
          /\ ( SnapshotTaken(t) /\ tasks'[t] # Idle )
               => /\ Range(tasks'[t].nodes) \subseteq Range(tasks[t].nodes)
                  /\ tasks'[t].pc >= ReturnAt(t)
                       => tasks'[t].val \subseteq Range(tasks[t].nodes)
          /\ ( SnapshotTaken(t) /\ nodes' # nodes )
               => tasks'[t] = tasks[t] ]_vars

\* A selection has returned a node that is no longer stored: it was removed
\* after the selection copied it.
C36_Witness ==
    \E t \in TaskIds :
       /\ tasks[t].op = "select_node_for_model"
       /\ HasReturned(t)
       /\ tasks[t].val # None
       /\ \A n \in tasks[t].val : n.id \notin DOMAIN nodes

----------------------------------------------------------------------------
(* The two locks of the registry *)

\* The tokio runtime polls every task that can take a step, and tokio's
\* RwLock queues its waiters first in, first out: a call that awaits a
\* guard which is free again and again is handed it.
Fairness ==
    \A t \in TaskIds : WF_vars(TaskStep(t)) /\ SF_vars(Acquire(t))

SpecLocksFair == SpecLocks /\ Fairness

\* No call holds a guard of the node map together with the guard of the
\* cursor, and a call that awaits the guard of the cursor holds none of the
\* node map.
LocksApart ==
    \A t \in TaskIds :
       /\ "index.write" \in tasks[t].holds
            => tasks[t].holds \cap NodesGuards = {}
       /\ Statement(t) = "index_write"
            => tasks[t].holds \cap NodesGuards = {}

\* C37: the node map and the round-robin cursor are locked independently
\* and never held together, a RoundRobin selection holds no guard of the
\* node map while it waits for or holds the cursor's, and no interleaving
\* of registry operations deadlocks: every started operation completes.
C37_LocksApartAndCallsComplete ==
    /\ []LocksApart
    /\ \A t \in TaskIds : (tasks[t].op # "idle") ~> HasReturned(t)

\* A RoundRobin selection holds the guard of the cursor while another call
\* holds the write guard of the node map.
C37_Witness ==
    \E t, u \in TaskIds :
       /\ "index.write" \in tasks[t].holds
       /\ "nodes.write" \in tasks[u].holds

----------------------------------------------------------------------------
(* What a selection writes *)

\* A step of select_node_for_model: every other operation of the registry
\* leaves its own name in `call`, and the clients and the backend change
\* in steps of their own.
Selects ==
    /\ call'.op = "select_node_for_model"
    /\ UNCHANGED <<clientMetrics, backendUp>>

\* C38: select_node_for_model never changes the node map (membership,
\* active flags, cached metrics) under any strategy; it changes the
\* round-robin cursor only when the strategy is RoundRobin and a node
\* qualifies and is returned; a selection that returns no node, and any
\* selection under LeastLoaded, LatencyBased or CapabilityBased, leaves the
\* whole registry as it was.
C38_SelectionWritesTheCursorOnly ==
    [][ Selects =>
          /\ UNCHANGED <<nodes, order, strategy>>
          /\ round_robin_index' # round_robin_index
               => /\ strategy = "RoundRobin"
                  /\ ret' \in DOMAIN nodes
                  /\ nodes[ret'].active
          /\ (ret' \notin DOMAIN nodes \/ strategy # "RoundRobin")
               => UNCHANGED <<strategy, nodes, order, round_robin_index,
                              clientMetrics, backendUp>> ]_vars

\* A RoundRobin selection has returned a node and left the cursor off 0.
C38_Witness ==
    /\ call = Called("select_node_for_model", TRUE)
    /\ strategy = "RoundRobin"
    /\ ret \in DOMAIN nodes
    /\ round_robin_index # 0

----------------------------------------------------------------------------
(* A stream that fails *)

\* C39: if a stream yields an error item, as its first item or after any
\* number of chunks, collect_chat_completion_stream and
\* collect_text_completion_stream stop at that item and return that error;
\* no response built from the chunks received so far is returned.
C39_StreamErrorIsReturned ==
    [][ \A item \in StreamItems(ChatChunks) \cup StreamItems(TextChunks) :
          ( /\ item.tag = "err"
            /\ \/ CollectChatFirst(item) \/ CollectChatRest(item)
               \/ CollectTextFirst(item) \/ CollectTextRest(item) )
          => /\ collector'.pc = "done"
             /\ collector'.result.tag = "err"
             /\ collector'.result.error = StreamError
             /\ collector'.result.choices = << >>
             /\ consumed' = consumed ]_vars

\* The chat collector has failed with the stream's error after two chunks
\* that carried content.
C39_Witness ==
    /\ collector.kind = "chat"
    /\ collector.pc = "done"
    /\ Len(consumed) = 2
    /\ collector.choices # << >>
    /\ \E i \in DOMAIN collector.choices : collector.choices[i].content # << >>
    /\ collector.result = Err(StreamError)

====
